---- MODULE Spec2Model ----
(***************************************************************************)
(* plumet: the style-tree compiler (generator.ts).                         *)
(*                                                                         *)
(* A JavaScript string is modelled as a sequence of one-character strings, *)
(* so that indexOf, slice, charCodeAt, the glob-to-regex conversion and    *)
(* the renderers are computed character by character as the code does.     *)
(* Array.join("") of the pushed pieces is sequence concatenation.          *)
(***************************************************************************)
EXTENDS Integers, Sequences, FiniteSets, TLC

VARIABLES
    rsParent,    \* resolveSelector: argument `parent`
    rsKey,       \* resolveSelector: argument `key`
    rsResult,    \* resolveSelector: returned string
    rsPc,        \* "call" before the call, "done" after it
    omOmit,      \* createOmitMatcher: argument `omit` (Absent or Some(list))
    omSelector,  \* argument of the returned predicate
    omResult,    \* value returned by the predicate
    omPc,        \* "call" | "done"
    style,       \* compileStyle: argument `style`
    options,     \* compileStyle: argument `options`
    css,         \* compileStyle: returned string
    kebabCache,  \* module-level Map kebabCache (key -> cached result)
    pc,          \* "call" | "done"
    canvas,      \* compileCanvas: argument `canvas`
    globalConfig,\* compileCanvas / compileCanvasMap: argument `globalConfig`
    canvasCss,   \* compileCanvas: returned string
    canvasPc,    \* "call" | "done"
    canvasMap,   \* compileCanvasMap: argument `canvasMap`
    mapResult,   \* compileCanvasMap: returned record (entries in insertion order)
    mapPc,       \* "call" | "done"
    kcKey,       \* kebabCase: argument `key` of the latest call
    kcResult,    \* kebabCase: string returned by the latest call
    kcPc,        \* "idle" before any call, "done" after one
    firstCss,    \* what the first compileStyle(style, options) returned
    entryExists, \* file system: the entry file exists
    entryImports,\* file system: the entry imports the dependency file
    depExists,   \* file system: the dependency file exists
    entryLoad,   \* what `import(moduleUrl)` of an existing entry yields
    disk,        \* file system: output path -> written css
    builds,      \* the calls of build(): one record of its locals each
    uiLog,       \* the calls made on the tui, in order
    exitCode,    \* process.exitCode
    activeWatchers, \* watchLoop: Map file -> watcher (a watcher is its number)
    closedWatchers, \* the watchers that were closed
    watcherCount,   \* the number of watchers created so far
    queued,      \* watchLoop: `queued`
    timers,      \* the pending setTimeout callbacks, oldest first: the `changed` of each
    evLog,       \* the watcher callbacks and timer callbacks run, in order
    cdFiles,     \* collectDependencies: the files of the entry's directory (path -> file)
    cdQueue,     \* collectDependencies: `queue`
    cdSeen,      \* collectDependencies: `seen`
    cdReads,     \* the paths readFile was called with, in order
    cdPc         \* "idle" | "loop" | "returned"

resolverVars == <<rsParent, rsKey, rsResult, rsPc>>
matcherVars == <<omOmit, omSelector, omResult, omPc>>
compilerVars == <<style, options, css, kebabCache, pc>>
canvasVars == <<canvas, globalConfig, canvasCss, canvasPc, canvasMap, mapResult, mapPc>>

\* the state of the operations outside the style compiler proper
cacheVars == <<kcKey, kcResult, kcPc, firstCss>>
fsVars == <<entryExists, entryImports, depExists, entryLoad>>
buildVars == <<disk, builds, uiLog, exitCode>>
watcherVars == <<activeWatchers, closedWatchers, watcherCount>>
timerVars == <<queued, timers, evLog>>
collectorVars == <<cdFiles, cdQueue, cdSeen, cdReads, cdPc>>
toolVars == <<canvasVars, cacheVars, fsVars, buildVars, watcherVars, timerVars, collectorVars>>

\* the state of the generator apart from kebabCache
generatorVars == <<resolverVars, matcherVars, style, options, css, pc, canvasVars, cacheVars>>

vars == <<resolverVars, matcherVars, compilerVars, toolVars>>

\* An optional field or argument: Absent is undefined, Some(x) is the value x.
Absent == [some |-> FALSE]
Some(x) == [some |-> TRUE, val |-> x]

(***************************************************************************)
(* Bounds of the checked input spaces.                                     *)
(***************************************************************************)
MaxSelLen == 3      \* longest parent / key / selector string drawn for the resolver and matcher
MaxPatLen == 3      \* longest omit pattern drawn for the matcher
MaxNodes == 3       \* most nodes below the root in a style tree of any shape
MaxRichNodes == 2   \* most nodes below the root in a tree with the rich entries
MaxChain == 4       \* deepest single-branch style tree
MaxCanvasNodes == 2 \* most nodes below the root in the style tree of a canvas
MaxUnits == 2       \* most units in a canvas map
MaxImports == 3     \* most import statements in the files of one import graph
MaxEvents == 2      \* most watcher callbacks in one run of watchLoop

(***************************************************************************)
(* String helpers (String.prototype.indexOf / slice, 0-based as in JS).    *)
(***************************************************************************)
RECURSIVE indexOf(_, _, _)
indexOf(s, ch, from) ==
    IF from >= Len(s) THEN -1
    ELSE IF s[from + 1] = ch THEN from
    ELSE indexOf(s, ch, from + 1)

slice(s, from, to) == SubSeq(s, from + 1, to)

sliceFrom(s, from) == SubSeq(s, from + 1, Len(s))

\* All strings over alphabet A of length at most n.
RECURSIVE StringsUpTo(_, _)
StringsUpTo(A, n) ==
    IF n = 0 THEN {<<>>}
    ELSE LET shorter == StringsUpTo(A, n - 1)
         IN  shorter \cup {Append(s, c) : s \in shorter, c \in A}

(***************************************************************************)
(* injectSelector / resolveSelector                                        *)
(***************************************************************************)
\* the while loop of injectSelector: state (acc, last, idx)
RECURSIVE injectLoop(_, _, _, _, _)
injectLoop(template, selector, acc, last, idx) ==
    IF idx = -1 THEN acc \o sliceFrom(template, last)
    ELSE injectLoop(template, selector,
                    acc \o slice(template, last, idx) \o selector,
                    idx + 1,
                    indexOf(template, "&", idx + 1))

injectSelector(template, selector) ==
    LET idx == indexOf(template, "&", 0)
    IN  IF idx = -1 THEN template
        ELSE injectLoop(template, selector, <<>>, 0, idx)

\* resolveSelector testing the pseudo marker before the parent reference
resolveSelector_PseudoFirst(parent, key) ==
    IF Len(key) > 0 /\ key[1] = ":" THEN parent \o key
    ELSE IF indexOf(key, "&", 0) # -1 THEN injectSelector(key, parent)
    ELSE IF parent # <<>> THEN parent \o <<" ">> \o key
    ELSE key

resolveSelector(parent, key) ==
    IF indexOf(key, "&", 0) # -1 THEN injectSelector(key, parent)
    ELSE IF Len(key) > 0 /\ key[1] = ":" THEN parent \o key
    ELSE IF parent # <<>> THEN parent \o <<" ">> \o key
    ELSE key

(***************************************************************************)
(* globToRegex / createOmitMatcher                                         *)
(***************************************************************************)
\* the character class of the first replace: [\\^$+?.()|[\]{}-]
RegexSpecials == {"\\", "^", "$", "+", "?", ".", "(", ")", "|", "[", "]", "{", "}", "-"}

\* glob.replace(/[\\^$+?.()|[\]{}-]/g, "\\$&")
RECURSIVE escapeSpecials(_)
escapeSpecials(glob) ==
    IF glob = <<>> THEN <<>>
    ELSE (IF Head(glob) \in RegexSpecials THEN <<"\\", Head(glob)>> ELSE <<Head(glob)>>)
         \o escapeSpecials(Tail(glob))

\* escaped.replace(/\*/g, ".*")
RECURSIVE expandWildcards(_)
expandWildcards(escaped) ==
    IF escaped = <<>> THEN <<>>
    ELSE (IF Head(escaped) = "*" THEN <<".", "*">> ELSE <<Head(escaped)>>)
         \o expandWildcards(Tail(escaped))

\* new RegExp(source) for the sources globToRegex can build: a backslash makes
\* the next character a literal, ".*" is the starred dot, any other character
\* is a literal.
RECURSIVE parseRegex(_)
parseRegex(source) ==
    IF source = <<>> THEN <<>>
    ELSE IF Head(source) = "\\" /\ Len(source) >= 2
         THEN <<[t |-> "lit", c |-> source[2]]>> \o parseRegex(SubSeq(source, 3, Len(source)))
    ELSE IF Head(source) = "." /\ Len(source) >= 2 /\ source[2] = "*"
         THEN <<[t |-> "dotstar"]>> \o parseRegex(SubSeq(source, 3, Len(source)))
    ELSE <<[t |-> "lit", c |-> Head(source)]>> \o parseRegex(Tail(source))

\* the body of `^${withWildcards}$`
globToRegex(glob) == parseRegex(expandWildcards(escapeSpecials(glob)))

\* Without the s flag the dot matches no line terminator.
LineTerminators == {"\n", "\r"}

\* RegExp.prototype.test for ^body$: does body, from token i, match s from
\* character j to the end of s?
RECURSIVE regexMatch(_, _, _, _)
regexMatch(re, i, s, j) ==
    IF i > Len(re) THEN j > Len(s)
    ELSE IF re[i].t = "dotstar"
         THEN \/ regexMatch(re, i + 1, s, j)
              \/ /\ j <= Len(s)
                 /\ s[j] \notin LineTerminators
                 /\ regexMatch(re, i, s, j + 1)
    ELSE /\ j <= Len(s)
         /\ s[j] = re[i].c
         /\ regexMatch(re, i + 1, s, j + 1)

regexTest(re, s) == regexMatch(re, 1, s, 1)

\* createOmitMatcher(omit)(selector)
isOmitted(omit, selector) ==
    LET list == IF omit.some THEN omit.val ELSE <<>>
        omitMatchers == [i \in 1..Len(list) |-> globToRegex(list[i])]
    IN  IF Len(omitMatchers) = 0 THEN FALSE
        ELSE \E i \in 1..Len(omitMatchers) : regexTest(omitMatchers[i], selector)

(***************************************************************************)
(* JavaScript values.  An object is the sequence of its own enumerable     *)
(* entries in insertion order (Object.keys / for-in order for the          *)
(* non-index keys used here); keys of one object are pairwise distinct.    *)
(***************************************************************************)
JsNull == [t |-> "null"]                    \* null or undefined
JsStr(s) == [t |-> "str", s |-> s]
JsNum(n) == [t |-> "num", n |-> n]
JsObj(entries) == [t |-> "obj", o |-> entries]
Entry(key, val) == [key |-> key, val |-> val]

\* obj[key], undefined when the object has no such key
RECURSIVE getProp(_, _)
getProp(entries, key) ==
    IF entries = <<>> THEN JsNull
    ELSE IF Head(entries).key = key THEN Head(entries).val
    ELSE getProp(Tail(entries), key)

\* an array of strings, and a string that is one of the PlumetFormat literals
JsArr(items) == [t |-> "arr", a |-> items]
JsFormat(f) == [t |-> "format", f |-> f]

\* !!v
truthy(v) ==
    IF v.t = "null" THEN FALSE
    ELSE IF v.t = "str" THEN v.s # <<>>
    ELSE IF v.t = "num" THEN v.n # 0
    ELSE TRUE

\* v[key] (v?.[key] where v may be undefined): undefined unless v is an
\* object with that key
prop(v, key) == IF v.t = "obj" THEN getProp(v.o, key) ELSE JsNull

\* obj[key] = val
setProp(entries, key, val) ==
    IF \E i \in 1..Len(entries) : entries[i].key = key
    THEN [i \in 1..Len(entries) |->
             IF entries[i].key = key THEN Entry(key, val) ELSE entries[i]]
    ELSE Append(entries, Entry(key, val))

Digits == <<"0", "1", "2", "3", "4", "5", "6", "7", "8", "9">>

RECURSIVE natToString(_)
natToString(n) ==
    IF n < 10 THEN <<Digits[n + 1]>>
    ELSE natToString(n \div 10) \o <<Digits[(n % 10) + 1]>>

\* String(v) for a string or a non-negative integer
toString(v) == IF v.t = "str" THEN v.s ELSE natToString(v.n)

(***************************************************************************)
(* kebabCase and its cache                                                 *)
(***************************************************************************)
UpperCase == <<"A", "B", "C", "D", "E", "F", "G", "H", "I", "J", "K", "L", "M",
               "N", "O", "P", "Q", "R", "S", "T", "U", "V", "W", "X", "Y", "Z">>
LowerCase == <<"a", "b", "c", "d", "e", "f", "g", "h", "i", "j", "k", "l", "m",
               "n", "o", "p", "q", "r", "s", "t", "u", "v", "w", "x", "y", "z">>

isUpper(c) == \E i \in 1..26 : UpperCase[i] = c

\* String.fromCharCode(code + 32) for code in 65..90
toLower(c) == LowerCase[CHOOSE i \in 1..26 : UpperCase[i] = c]

\* the for loop of kebabCase
RECURSIVE kebabLoop(_)
kebabLoop(key) ==
    IF key = <<>> THEN <<>>
    ELSE (IF isUpper(Head(key)) THEN <<"-", toLower(Head(key))>> ELSE <<Head(key)>>)
         \o kebabLoop(Tail(key))

EmptyCache == [k \in {} |-> <<>>]

cacheSet(cache, key, value) ==
    [k \in DOMAIN cache \cup {key} |-> IF k = key THEN value ELSE cache[k]]

\* kebabCase returning its argument instead of the cached string on a hit
kebabCase_HitReturnsKey(key, cache) ==
    IF key \in DOMAIN cache /\ cache[key] # <<>>
    THEN [result |-> key, cache |-> cache]
    ELSE LET result == kebabLoop(key)
         IN  [result |-> result, cache |-> cacheSet(cache, key, result)]

\* kebabCase(key) on cache state `cache`: [result, cache]
kebabCase(key, cache) ==
    IF key \in DOMAIN cache /\ cache[key] # <<>>
    THEN [result |-> cache[key], cache |-> cache]
    ELSE LET result == kebabLoop(key)
         IN  [result |-> result, cache |-> cacheSet(cache, key, result)]

(***************************************************************************)
(* normalizeOptions / collectDeclarations                                  *)
(***************************************************************************)
\* options: undefined | string[] | { omit?, format? }
NoOptions == [kind |-> "undefined"]
ArrayOptions(omit) == [kind |-> "array", omit |-> omit]
ObjectOptions(omit, format) == [kind |-> "object", omit |-> omit, format |-> format]

normalizeOptions(opts) ==
    IF opts.kind = "array" THEN [omit |-> Some(opts.omit), format |-> Absent]
    ELSE IF opts.kind = "object" THEN [omit |-> opts.omit, format |-> opts.format]
    ELSE [omit |-> Absent, format |-> Absent]

RECURSIVE collectLoop(_, _, _)

\* collectLoop without the `v == null` test: String(null) is "null"
collectLoop_KeepsAbsent(props, entries, cache) ==
    IF props = <<>> THEN [entries |-> entries, cache |-> cache]
    ELSE LET k == Head(props).key
             v == Head(props).val
             kc == kebabCase(k, cache)
         IN  collectLoop(Tail(props),
                         Append(entries,
                                <<kc.result,
                                  IF v.t = "null" THEN <<"n", "u", "l", "l">> ELSE toString(v)>>),
                         kc.cache)

\* the for-in loop of collectDeclarations: [entries, cache]
collectLoop(props, entries, cache) ==
    IF props = <<>> THEN [entries |-> entries, cache |-> cache]
    ELSE LET k == Head(props).key
             v == Head(props).val
         IN  IF v.t = "null" THEN collectLoop(Tail(props), entries, cache)
             ELSE LET kc == kebabCase(k, cache)
                  IN  collectLoop(Tail(props),
                                  Append(entries, <<kc.result, toString(v)>>),
                                  kc.cache)

\* collectDeclarations(props): [entries, cache].  `props` is style.$, an
\* object or undefined.
collectDeclarations(props, cache) ==
    IF props.t # "obj" THEN [entries |-> <<>>, cache |-> cache]
    ELSE collectLoop(props.o, <<>>, cache)

(***************************************************************************)
(* Format renderer                                                         *)
(***************************************************************************)
RECURSIVE repeat(_, _)
repeat(s, n) == IF n = 0 THEN <<>> ELSE s \o repeat(s, n - 1)

indent(depth, format) ==
    IF format # "pretty" THEN <<>> ELSE repeat(<<" ", " ">>, depth)

\* the `for (const [prop, value] of declarations)` loops
RECURSIVE prettyDeclarations_NoSemicolon(_, _)
\* the pretty declaration line without its semicolon
prettyDeclarations_NoSemicolon(declarations, depth) ==
    IF declarations = <<>> THEN <<>>
    ELSE indent(depth, "pretty") \o Head(declarations)[1] \o <<":", " ">>
         \o Head(declarations)[2] \o <<"\n">>
         \o prettyDeclarations_NoSemicolon(Tail(declarations), depth)

RECURSIVE prettyDeclarations(_, _)
prettyDeclarations(declarations, depth) ==
    IF declarations = <<>> THEN <<>>
    ELSE indent(depth, "pretty") \o Head(declarations)[1] \o <<":", " ">>
         \o Head(declarations)[2] \o <<";", "\n">>
         \o prettyDeclarations(Tail(declarations), depth)

RECURSIVE compactDeclarations(_)
compactDeclarations(declarations) ==
    IF declarations = <<>> THEN <<>>
    ELSE Head(declarations)[1] \o <<":">> \o Head(declarations)[2] \o <<";">>
         \o compactDeclarations(Tail(declarations))

\* writeRule without the newline of the default format
writeRule_NoNewline(out, selector, declarations, depth, format) ==
    IF format = "pretty"
    THEN LET base == indent(depth, format)
         IN  out \o base \o selector \o <<" ", "{", "\n">>
                 \o prettyDeclarations(declarations, depth + 1)
                 \o base \o <<"}", "\n">>
    ELSE out \o selector \o <<"{">> \o compactDeclarations(declarations) \o <<"}">>

\* writeRule(out, ...): the new contents of out
writeRule(out, selector, declarations, depth, format) ==
    IF format = "pretty"
    THEN LET base == indent(depth, format)
         IN  out \o base \o selector \o <<" ", "{", "\n">>
                 \o prettyDeclarations(declarations, depth + 1)
                 \o base \o <<"}", "\n">>
    ELSE out \o selector \o <<"{">> \o compactDeclarations(declarations) \o <<"}">>
             \o (IF format = "default" THEN <<"\n">> ELSE <<>>)

\* writeDeclarations(out, ...): the new contents of out
writeDeclarations(out, declarations, depth, format) ==
    IF format = "pretty" THEN out \o prettyDeclarations(declarations, depth)
    ELSE out \o compactDeclarations(declarations)

\* wrapAtRule without the `if (!body) return ""` guard
wrapAtRule_NoEmptyCheck(name, body, depth, format) ==
    IF format = "pretty"
    THEN LET base == indent(depth, format)
         IN  base \o name \o <<" ", "{", "\n">> \o body \o base \o <<"}", "\n">>
    ELSE LET newline == IF format = "default" THEN <<"\n">> ELSE <<>>
         IN  name \o <<"{">> \o body \o <<"}">> \o newline

\* wrapAtRule ending the compact wrapper with a newline in every format
wrapAtRule_NewlineInMinify(name, body, depth, format) ==
    IF body = <<>> THEN <<>>
    ELSE IF format = "pretty"
         THEN LET base == indent(depth, format)
              IN  base \o name \o <<" ", "{", "\n">> \o body \o base \o <<"}", "\n">>
    ELSE name \o <<"{">> \o body \o <<"}">> \o <<"\n">>

wrapAtRule(name, body, depth, format) ==
    IF body = <<>> THEN <<>>
    ELSE IF format = "pretty"
         THEN LET base == indent(depth, format)
              IN  base \o name \o <<" ", "{", "\n">> \o body \o base \o <<"}", "\n">>
    ELSE LET newline == IF format = "default" THEN <<"\n">> ELSE <<>>
         IN  name \o <<"{">> \o body \o <<"}">> \o newline

(***************************************************************************)
(* Tree walker.  An output array together with the hyphenation cache is a  *)
(* record [out, cache]: out is the array joined, cache the kebabCache as   *)
(* the code has left it so far.  Every function that pushes to an array    *)
(* takes and returns such a record.  (compileRuleNode's boolean result is  *)
(* used by no caller.)                                                     *)
(***************************************************************************)
RECURSIVE compileRuleNode(_, _, _, _, _, _)
RECURSIVE ruleKeysLoop(_, _, _, _, _, _, _)
RECURSIVE ruleAtRuleLoop(_, _, _, _, _, _, _)
RECURSIVE compileAtRule(_, _, _, _, _, _, _)
RECURSIVE atRuleKeysLoop(_, _, _, _, _, _, _)

\* `if (!key || key === "$") continue` and `if (!child || typeof child !== "object") continue`
isSkipped(key, child) == key = <<>> \/ key = <<"$">> \/ child.t # "obj"

\* `if (declarations.length) writeRule(out, ...)` on the collected declarations
writeOwnRule(out, selector, declarations, depth, format) ==
    [out |-> IF Len(declarations.entries) > 0
             THEN writeRule(out, selector, declarations.entries, depth, format)
             ELSE out,
     cache |-> declarations.cache]

\* `const bodyParts = []; if (declarations.length) writeDeclarations(bodyParts, ...)`
startBody(declarations, depth, format) ==
    [out |-> IF Len(declarations.entries) > 0
             THEN writeDeclarations(<<>>, declarations.entries, depth, format)
             ELSE <<>>,
     cache |-> declarations.cache]

\* `if (nestedBody) bodyParts.push(nestedBody)`
pushNestedBody(out, nestedBody) ==
    [out |-> IF nestedBody.out # <<>> THEN out \o nestedBody.out ELSE out,
     cache |-> nestedBody.cache]

\* `const body = bodyParts.join(""); if (body) out.push(wrapAtRule(key, body, depth, format))`
pushWrappedBody(out, key, bodyParts, depth, format) ==
    [out |-> IF bodyParts.out # <<>>
             THEN out \o wrapAtRule(key, bodyParts.out, depth, format)
             ELSE out,
     cache |-> bodyParts.cache]

\* the wrapper written one level deeper than its depth
wrappedBody_DeeperWrapper(name, bodyParts, depth, format) ==
    [out |-> wrapAtRule(name, bodyParts.out, depth + 1, format), cache |-> bodyParts.cache]

\* `return wrapAtRule(name, bodyParts.join(""), depth, format)`
wrappedBody(name, bodyParts, depth, format) ==
    [out |-> wrapAtRule(name, bodyParts.out, depth, format), cache |-> bodyParts.cache]

\* `if (isOmitted(nextSelector)) continue; compileRuleNode(nextSelector, child, depth, ...)`
compileUnlessOmitted(nextSelector, child, depth, format, omit, acc) ==
    IF isOmitted(omit, nextSelector) THEN acc
    ELSE compileRuleNode(nextSelector, child, depth, format, omit, acc)

\* one pass of `for (const childKey of childKeys)` in the at-rule branch of
\* compileRuleNode
ruleAtRuleStep(selector, childKey, nested, depth, format, omit, bodyParts) ==
    IF isSkipped(childKey, nested) THEN bodyParts
    ELSE IF childKey[1] = "@"
         THEN pushNestedBody(bodyParts.out,
                             compileAtRule(childKey, nested.o, selector, depth + 1,
                                           format, omit, bodyParts.cache))
    ELSE compileUnlessOmitted(resolveSelector(selector, childKey), nested.o, depth + 1,
                              format, omit, bodyParts)

ruleAtRuleLoop(selector, childStyle, j, depth, format, omit, bodyParts) ==
    IF j > Len(childStyle) THEN bodyParts
    ELSE ruleAtRuleLoop(selector, childStyle, j + 1, depth, format, omit,
                        ruleAtRuleStep(selector, childStyle[j].key, childStyle[j].val,
                                       depth, format, omit, bodyParts))

\* the pass recursing into an ordinary nested rule one level deeper
ruleKeyStep_DepthPlusOne(selector, key, child, depth, format, omit, acc) ==
    IF isSkipped(key, child) THEN acc
    ELSE IF key[1] = "@"
         THEN pushWrappedBody(
                  acc.out, key,
                  ruleAtRuleLoop(selector, child.o, 1, depth, format, omit,
                                 startBody(collectDeclarations(getProp(child.o, <<"$">>),
                                                               acc.cache),
                                           depth + 1, format)),
                  depth, format)
    ELSE compileUnlessOmitted(resolveSelector(selector, key), child.o, depth + 1, format,
                              omit, acc)

\* one pass of `for (const key of keys)` in compileRuleNode
ruleKeyStep(selector, key, child, depth, format, omit, acc) ==
    IF isSkipped(key, child) THEN acc
    ELSE IF key[1] = "@"
         THEN pushWrappedBody(
                  acc.out, key,
                  ruleAtRuleLoop(selector, child.o, 1, depth, format, omit,
                                 startBody(collectDeclarations(getProp(child.o, <<"$">>),
                                                               acc.cache),
                                           depth + 1, format)),
                  depth, format)
    ELSE compileUnlessOmitted(resolveSelector(selector, key), child.o, depth, format,
                              omit, acc)

ruleKeysLoop(selector, style_, i, depth, format, omit, acc) ==
    IF i > Len(style_) THEN acc
    ELSE ruleKeysLoop(selector, style_, i + 1, depth, format, omit,
                      ruleKeyStep(selector, style_[i].key, style_[i].val, depth, format,
                                  omit, acc))

\* compileRuleNode writing its own rule after its children's output
compileRuleNode_ChildrenFirst(selector, style_, depth, format, omit, acc) ==
    LET kids == ruleKeysLoop(selector, style_, 1, depth, format, omit, acc)
    IN  writeOwnRule(kids.out, selector,
                     collectDeclarations(getProp(style_, <<"$">>), kids.cache),
                     depth, format)

\* compileRuleNode(selector, style, depth, format, isOmitted, out)
compileRuleNode(selector, style_, depth, format, omit, acc) ==
    ruleKeysLoop(selector, style_, 1, depth, format, omit,
                 writeOwnRule(acc.out, selector,
                              collectDeclarations(getProp(style_, <<"$">>), acc.cache),
                              depth, format))

\* the pass of compileAtRule's loop without the isOmitted test
atRuleKeyStep_NoOmitCheck(parentSelector, key, child, depth, format, omit, bodyParts) ==
    IF isSkipped(key, child) THEN bodyParts
    ELSE IF key[1] = "@"
         THEN pushNestedBody(bodyParts.out,
                             compileAtRule(key, child.o, parentSelector, depth + 1, format,
                                           omit, bodyParts.cache))
    ELSE compileRuleNode(resolveSelector(parentSelector, key), child.o, depth + 1,
                         format, omit, bodyParts)

\* one pass of `for (const key of keys)` in compileAtRule
atRuleKeyStep(parentSelector, key, child, depth, format, omit, bodyParts) ==
    IF isSkipped(key, child) THEN bodyParts
    ELSE IF key[1] = "@"
         THEN pushNestedBody(bodyParts.out,
                             compileAtRule(key, child.o, parentSelector, depth + 1, format,
                                           omit, bodyParts.cache))
    ELSE compileUnlessOmitted(resolveSelector(parentSelector, key), child.o, depth + 1,
                              format, omit, bodyParts)

atRuleKeysLoop(style_, parentSelector, i, depth, format, omit, bodyParts) ==
    IF i > Len(style_) THEN bodyParts
    ELSE atRuleKeysLoop(style_, parentSelector, i + 1, depth, format, omit,
                        atRuleKeyStep(parentSelector, style_[i].key, style_[i].val, depth,
                                      format, omit, bodyParts))

\* compileAtRule testing the at-rule name against the omit matcher
compileAtRule_OmitsByName(name, style_, parentSelector, depth, format, omit, cache) ==
    IF isOmitted(omit, name) THEN [out |-> <<>>, cache |-> cache]
    ELSE wrappedBody(name,
                     atRuleKeysLoop(style_, parentSelector, 1, depth, format, omit,
                                    startBody(collectDeclarations(getProp(style_, <<"$">>),
                                                                  cache),
                                              depth + 1, format)),
                     depth, format)

\* compileAtRule resolving its rules against the at-rule name
compileAtRule_NameAsScope(name, style_, parentSelector, depth, format, omit, cache) ==
    wrappedBody(name,
                atRuleKeysLoop(style_, name, 1, depth, format, omit,
                               startBody(collectDeclarations(getProp(style_, <<"$">>), cache),
                                         depth + 1, format)),
                depth, format)

\* compileAtRule(...) on cache state `cache`: [out |-> the returned text, cache]
compileAtRule(name, style_, parentSelector, depth, format, omit, cache) ==
    wrappedBody(name,
                atRuleKeysLoop(style_, parentSelector, 1, depth, format, omit,
                               startBody(collectDeclarations(getProp(style_, <<"$">>), cache),
                                         depth + 1, format)),
                depth, format)

\* the pass of compileStyle's loop skipping an excluded node's own rule only,
\* and still walking its children
styleKeyStep_WalksOmitted(key, child, format, omit, acc) ==
    IF isSkipped(key, child) THEN acc
    ELSE IF key[1] = "@"
         THEN pushNestedBody(acc.out,
                             compileAtRule(key, child.o, <<>>, 0, format, omit, acc.cache))
    ELSE IF isOmitted(omit, resolveSelector(<<>>, key))
         THEN ruleKeysLoop(resolveSelector(<<>>, key), child.o, 1, 0, format, omit, acc)
    ELSE compileRuleNode(resolveSelector(<<>>, key), child.o, 0, format, omit, acc)

\* one pass of `for (const key of keys)` in compileStyle
styleKeyStep(key, child, format, omit, acc) ==
    IF isSkipped(key, child) THEN acc
    ELSE IF key[1] = "@"
         THEN pushNestedBody(acc.out,
                             compileAtRule(key, child.o, <<>>, 0, format, omit, acc.cache))
    ELSE compileUnlessOmitted(resolveSelector(<<>>, key), child.o, 0, format, omit, acc)

RECURSIVE styleKeysLoop(_, _, _, _, _)
styleKeysLoop(style_, i, format, omit, acc) ==
    IF i > Len(style_) THEN acc
    ELSE styleKeysLoop(style_, i + 1, format, omit,
                       styleKeyStep(style_[i].key, style_[i].val, format, omit, acc))

\* `const { omit, format = "default" } = normalizeOptions(options)` and the loop
compileWith(style_, normalized, cache) ==
    styleKeysLoop(style_, 1,
                  IF normalized.format.some THEN normalized.format.val ELSE "default",
                  normalized.omit,
                  [out |-> <<>>, cache |-> cache])

\* compileStyle(style, options) on cache state `cache`: [out, cache]
compileStyle(style_, options_, cache) ==
    IF style_.t # "obj" THEN [out |-> <<>>, cache |-> cache]
    ELSE compileWith(style_.o, normalizeOptions(options_), cache)

(***************************************************************************)
(* compileCanvas / compileCanvasMap                                        *)
(***************************************************************************)
ConfigKey == <<"c", "o", "n", "f", "i", "g">>
StyleKey == <<"s", "t", "y", "l", "e">>
OutputKey == <<"o", "u", "t", "p", "u", "t">>
OmitKey == <<"o", "m", "i", "t">>
FormatKey == <<"f", "o", "r", "m", "a", "t">>

\* canvasOptions testing `omit != null` first: the format is lost when both
\* are present
canvasOptions_OmitFirst(omit, format) ==
    IF omit.t # "null" THEN ArrayOptions(omit.a)
    ELSE IF format.t # "null" THEN ObjectOptions(Absent, Some(format.f))
    ELSE NoOptions

\* the `options` compileCanvas builds from omit and format
canvasOptions(omit, format) ==
    IF omit.t # "null" /\ format.t # "null" THEN ObjectOptions(Some(omit.a), Some(format.f))
    ELSE IF omit.t # "null" THEN ArrayOptions(omit.a)
    ELSE IF format.t # "null" THEN ObjectOptions(Absent, Some(format.f))
    ELSE NoOptions

\* compileCanvas(canvas, globalConfig) on cache state `cache`: [out, cache]
compileCanvas(canvas_, globalConfig_, cache) ==
    compileStyle(prop(canvas_, StyleKey),
                 canvasOptions(prop(prop(canvas_, ConfigKey), OmitKey),
                               prop(globalConfig_, FormatKey)),
                 cache)

\* mapKeyStep with one string shared by the units: each entry holds the
\* output of the units before it as well
mapKeyStep_SharedOutput(key, canvas_, globalConfig_, compiled, acc) ==
    IF ~truthy(canvas_) THEN acc
    ELSE [result |-> setProp(acc.result, key,
                             JsStr((IF acc.result = <<>> THEN <<>>
                                    ELSE acc.result[Len(acc.result)].val.s)
                                   \o compiled.out)),
          cache |-> compiled.cache]

\* one pass of `for (const key of Object.keys(canvasMap))`:
\* acc is [result, cache]
mapKeyStep(key, canvas_, globalConfig_, compiled, acc) ==
    IF ~truthy(canvas_) THEN acc
    ELSE [result |-> setProp(acc.result, key, JsStr(compiled.out)), cache |-> compiled.cache]

RECURSIVE mapKeysLoop(_, _, _, _)
mapKeysLoop(canvasMap_, i, globalConfig_, acc) ==
    IF i > Len(canvasMap_) THEN acc
    ELSE mapKeysLoop(canvasMap_, i + 1, globalConfig_,
                     mapKeyStep(canvasMap_[i].key, canvasMap_[i].val, globalConfig_,
                                compileCanvas(canvasMap_[i].val, globalConfig_, acc.cache),
                                acc))

\* compileCanvasMap(canvasMap, globalConfig) on cache state `cache`: [result, cache]
compileCanvasMap(canvasMap_, globalConfig_, cache) ==
    mapKeysLoop(canvasMap_, 1, globalConfig_, [result |-> <<>>, cache |-> cache])

(***************************************************************************)
(* cli.ts: isCanvas                                                        *)
(***************************************************************************)
\* typeof v === "object" / "string"
typeofObject(v) == v.t \in {"obj", "arr", "null"}
typeofString(v) == v.t \in {"str", "format"}

isCanvas(value) ==
    IF ~truthy(value) \/ ~typeofObject(value) THEN FALSE
    ELSE /\ truthy(prop(value, ConfigKey))
         /\ typeofString(prop(prop(value, ConfigKey), OutputKey))
         /\ truthy(prop(value, StyleKey))
         /\ typeofObject(prop(value, StyleKey))

\* Object.entries(v)
entriesOf(v) ==
    IF v.t = "obj" THEN v.o
    ELSE IF v.t = "arr"
         THEN [i \in 1..Len(v.a) |-> Entry(natToString(i - 1), JsStr(v.a[i]))]
    ELSE <<>>

isCanvasMap(value) ==
    IF ~truthy(value) \/ ~typeofObject(value) THEN FALSE
    ELSE \A i \in 1..Len(entriesOf(value)) : isCanvas(entriesOf(value)[i].val)

CanvasKey == <<"c", "a", "n", "v", "a", "s">>

\* normalizePlumetData(value): Absent (undefined) or Some([canvas, config])
normalizePlumetData(value) ==
    IF ~truthy(value) \/ ~typeofObject(value) THEN Absent
    ELSE IF truthy(prop(value, CanvasKey)) /\ typeofObject(prop(value, CanvasKey))
         THEN Some([canvas |-> prop(value, CanvasKey), config |-> prop(value, ConfigKey)])
    ELSE IF isCanvasMap(value) THEN Some([canvas |-> value, config |-> JsNull])
    ELSE Absent

(***************************************************************************)
(* cli.ts: build.  A call of build() is a record of its locals; `pc` is    *)
(* the await it is suspended at: "deps" (collectDependencies), "import",   *)
(* "mkdir", "write", "stat" (of unit i), or "returned".                    *)
(***************************************************************************)
EntryPath == <<"e">>
DepPath == <<"d">>

\* a Line / WatchEvent: label (= kind), the unit it names (<<>> for none) and
\* the rest of its text
Line(label, unit, text) == [label |-> label, unit |-> unit, text |-> text]

\* a call on the tui: watch(events), error(lines), done(lines), info(lines),
\* summary({files, errors})
UiCall(call, lines) == [call |-> call, lines |-> lines, files |-> 0, errors |-> 0]
UiSummary(files, errors) ==
    [call |-> "summary", lines |-> <<>>, files |-> files, errors |-> errors]

NewBuild(watchMode) ==
    [watchMode |-> watchMode, pc |-> "deps", deps |-> Absent, units |-> <<>>,
     globalConfig |-> JsNull, i |-> 1, css |-> <<>>,
     errors |-> <<>>, done |-> <<>>, watchEvents |-> <<>>]

\* a call that has returned `deps ? { deps } : undefined`
Returned(b) ==
    [NewBuild(b.watchMode) EXCEPT !.pc = "returned", !.deps = b.deps]

\* collectDependencies(entryPath) on the file system as it is: the entry, and
\* the file it imports when both can be read
collectedDeps(entryExists_, entryImports_, depExists_) ==
    {EntryPath} \cup (IF entryExists_ /\ entryImports_ /\ depExists_ THEN {DepPath} ELSE {})

\* the `!isCanvas(canvas)` branch pushing the watch event only
pushInvalid_WatchEventOnly(b) ==
    [b EXCEPT !.i = @ + 1,
              !.watchEvents = Append(@, Line("invalid", b.units[b.i].key,
                                             "expected PlumetCanvas"))]

\* the `!isCanvas(canvas)` branch of the loop
pushInvalid(b) ==
    [b EXCEPT !.i = @ + 1,
              !.errors = Append(@, Line("invalid", b.units[b.i].key, "expected PlumetCanvas")),
              !.watchEvents = Append(@, Line("invalid", b.units[b.i].key,
                                             "expected PlumetCanvas"))]

pushFailed_EndsLoop(b) ==
    [b EXCEPT !.i = Len(b.units) + 1,
              !.errors = Append(@, Line("failed", b.units[b.i].key, "error message")),
              !.watchEvents = Append(@, Line("failed", b.units[b.i].key, "error message"))]

\* the catch branch of the loop
pushFailed(b) ==
    [b EXCEPT !.i = @ + 1,
              !.errors = Append(@, Line("failed", b.units[b.i].key, "error message")),
              !.watchEvents = Append(@, Line("failed", b.units[b.i].key, "error message"))]

\* the end of the try block of the loop
pushBuilt(b) ==
    [b EXCEPT !.i = @ + 1,
              !.done = Append(@, Line("built", b.units[b.i].key, "output and size")),
              !.watchEvents = Append(@, Line("built", b.units[b.i].key, "output and size"))]

\* the for loop from unit i on, as far as it runs without awaiting: to the
\* first unit that is a canvas ("mkdir"), or past the last unit ("report")
RECURSIVE loopToAwait(_)
loopToAwait(b) ==
    IF b.i > Len(b.units) THEN [b EXCEPT !.pc = "report"]
    ELSE IF ~isCanvas(b.units[b.i].val) THEN loopToAwait(pushInvalid(b))
    ELSE [b EXCEPT !.pc = "mkdir"]

\* what the end of build() reports on the tui, and process.exitCode after it
reportCalls(b) ==
    IF b.watchMode THEN <<UiCall("watch", b.watchEvents)>>
    ELSE (IF Len(b.errors) > 0 THEN <<UiCall("error", b.errors)>> ELSE <<>>)
         \o (IF Len(b.done) > 0 THEN <<UiCall("done", b.done)>> ELSE <<>>)
         \o <<UiSummary(Len(b.done), Len(b.errors))>>

reportExitCode(b, code) ==
    IF ~b.watchMode /\ Len(b.errors) > 0 THEN 1 ELSE code

\* the two early returns of build(): the entry failed to load, or its default
\* export is no PlumetData
rejectCalls(b, text) ==
    IF b.watchMode THEN <<UiCall("watch", <<Line("invalid", <<>>, text)>>)>>
    ELSE <<UiCall("error", <<Line("invalid", <<>>, text)>>), UiSummary(0, 1)>>

rejectExitCode(b, code) == IF b.watchMode THEN code ELSE 1

\* writeFile(outputPath, css)
writeFile(disk_, path, text) == setProp(disk_, path, JsStr(text))

\* resolve(baseDir, canvas.config.output) of unit i
outputPath(b) == prop(prop(b.units[b.i].val, ConfigKey), OutputKey).s

(***************************************************************************)
(* watch.ts: watchLoop                                                     *)
(***************************************************************************)
\* watch(file) throws for a file that does not exist
canWatch(file, entryExists_, depExists_) ==
    IF file = EntryPath THEN entryExists_ ELSE depExists_

\* the files of a Set in insertion order: the entry first
inOrder(files) ==
    (IF EntryPath \in files THEN <<EntryPath>> ELSE <<>>)
    \o (IF DepPath \in files THEN <<DepPath>> ELSE <<>>)

\* the first loop deleting the watchers without closing them
closedBy_LeftOpen(watchers, files) == {}

\* resetWatchers(files), first loop: the watchers that are closed and deleted
closedBy(watchers, files) == {watchers[f] : f \in DOMAIN watchers \ files}

\* resetWatchers(files), second loop: the files that get a new watcher, in order
watchedAnew(watchers, files, entryExists_, depExists_) ==
    SelectSeq(inOrder(files),
              LAMBDA f : f \notin DOMAIN watchers /\ canWatch(f, entryExists_, depExists_))

\* resetWatchers(files): the map after both loops; new watchers are numbered
\* from count + 1
resetWatchers(watchers, files, count, entryExists_, depExists_) ==
    LET fresh == watchedAnew(watchers, files, entryExists_, depExists_)
    IN  [f \in (DOMAIN watchers \cap files) \cup {fresh[k] : k \in 1..Len(fresh)} |->
            IF f \in DOMAIN watchers THEN watchers[f]
            ELSE count + (CHOOSE k \in 1..Len(fresh) : fresh[k] = f)]

\* scheduleBuild(changed): `queued` and the pending timers after the call
scheduleBuild_Unguarded(queued_, timers_, changed) ==
    [queued |-> TRUE, timers |-> Append(timers_, changed)]

scheduleBuild(queued_, timers_, changed) ==
    IF queued_ THEN [queued |-> queued_, timers |-> timers_]
    ELSE [queued |-> TRUE, timers |-> Append(timers_, changed)]

\* what happened in the loop, in order: watcher callbacks and timer callbacks
Changed(file) == [kind |-> "change", file |-> file]
Fired == [kind |-> "fire", file |-> <<>>]

countOf(log, kind) == Cardinality({k \in 1..Len(log) : log[k].kind = kind})

(***************************************************************************)
(* cli.ts: resolveImport and collectDependencies.  The files are those of  *)
(* the entry's directory, so a path is a file name and                     *)
(* resolve(dirname(base), "./x") is x.                                     *)
(***************************************************************************)
CANDIDATE_EXTS ==
    <<<<".", "t", "s">>, <<".", "t", "s", "x">>, <<".", "j", "s">>, <<".", "m", "j", "s">>,
      <<".", "c", "j", "s">>, <<".", "m", "t", "s">>, <<".", "c", "t", "s">>>>

\* String.prototype.startsWith / endsWith
startsWith(s, prefix) == Len(s) >= Len(prefix) /\ SubSeq(s, 1, Len(prefix)) = prefix
endsWith(s, suffix) ==
    Len(s) >= Len(suffix) /\ SubSeq(s, Len(s) - Len(suffix) + 1, Len(s)) = suffix

\* resolve(baseDir, spec) within the one directory
resolvePath(spec) ==
    IF startsWith(spec, <<".", "/">>) THEN SubSeq(spec, 3, Len(spec)) ELSE spec

\* a file of the directory: does it exist, and the specifiers of the import
\* and export statements the regular expression finds in it, in order
File(exists, imports) == [exists |-> exists, imports |-> imports]

\* `await access(p)` / `await readFile(current)` succeed
access(files, p) == p \in DOMAIN files /\ files[p].exists

\* withExt(p)
withExt(files, p) == IF access(files, p) THEN Some(p) ELSE Absent

\* `for (const ext of CANDIDATE_EXTS)` from candidate k on
RECURSIVE firstCandidate(_, _, _)
firstCandidate(files, full, k) ==
    IF k > Len(CANDIDATE_EXTS) THEN Absent
    ELSE IF withExt(files, full \o CANDIDATE_EXTS[k]).some
         THEN withExt(files, full \o CANDIDATE_EXTS[k])
    ELSE firstCandidate(files, full, k + 1)

\* resolveImport without the test of the leading "."
resolveImport_AnySpecifier(files, base, spec) ==
    IF \E k \in 1..Len(CANDIDATE_EXTS) : endsWith(spec, CANDIDATE_EXTS[k])
    THEN withExt(files, resolvePath(spec))
    ELSE firstCandidate(files, resolvePath(spec), 1)

\* resolveImport(base, spec): Some(path) or Absent (undefined)
resolveImport(files, base, spec) ==
    IF ~startsWith(spec, <<".">>) THEN Absent
    ELSE IF \E k \in 1..Len(CANDIDATE_EXTS) : endsWith(spec, CANDIDATE_EXTS[k])
         THEN withExt(files, resolvePath(spec))
    ELSE firstCandidate(files, resolvePath(spec), 1)

\* the `for (;;)` loop over the matches of importRegex in `current`: the
\* paths pushed on the queue, in order
pushed(files, current, seen) ==
    LET specs == files[current].imports
        resolved == [i \in 1..Len(specs) |-> resolveImport(files, current, specs[i])]
        kept == SelectSeq(resolved, LAMBDA r : r.some /\ r.val \notin seen)
    IN  [i \in 1..Len(kept) |-> kept[i].val]

\* one pass of `while (queue.length)` that reads `current` again when it has
\* been seen
whilePass_NoSeenCheck(files, queue, seen, reads) ==
    LET current == queue[Len(queue)]
        rest == SubSeq(queue, 1, Len(queue) - 1)
    IN  IF ~access(files, current)
        THEN [queue |-> rest, seen |-> seen \cup {current}, reads |-> Append(reads, current)]
        ELSE [queue |-> rest \o pushed(files, current, seen \cup {current}),
              seen |-> seen \cup {current}, reads |-> Append(reads, current)]

\* one pass of `while (queue.length)`: queue, seen and the readFile calls
\* after it
whilePass(files, queue, seen, reads) ==
    LET current == queue[Len(queue)]
        rest == SubSeq(queue, 1, Len(queue) - 1)
    IN  IF current = <<>> \/ current \in seen
        THEN [queue |-> rest, seen |-> seen, reads |-> reads]
        ELSE IF ~access(files, current)
             THEN [queue |-> rest, seen |-> seen \cup {current},
                   reads |-> Append(reads, current)]
        ELSE [queue |-> rest \o pushed(files, current, seen \cup {current}),
              seen |-> seen \cup {current}, reads |-> Append(reads, current)]

(***************************************************************************)
(* Input spaces                                                            *)
(***************************************************************************)
ResolverAlphabet == {"a", "&", ":", " "}
PatternAlphabet == {"a", ".", "*", "\n"}
SelectorAlphabet == {"a", ".", "\n"}

\* second patterns of the two-pattern omit lists
SecondPatterns == {<<"a">>, <<".", "*">>}

OmitInputs(maxPatLen) ==
    {Absent, Some(<<>>)}
    \cup {Some(<<p>>) : p \in StringsUpTo(PatternAlphabet, maxPatLen)}
    \cup {Some(<<p, q>>) : p \in StringsUpTo(PatternAlphabet, maxPatLen), q \in SecondPatterns}

\* keys of a style node: descendant, pseudo, parent reference, at-rule
KeyA == <<"a">>
KeyPseudo == <<":", "h">>
KeyAmp == <<"&", "b">>
KeyAt == <<"@", "m">>

\* the entries a node object starts with: no `$`, a `$` of absent values
\* only, a `$` with one declaration, a `$` mixing present and absent values,
\* an empty `$`
DeclNone == <<>>
DeclNull == <<Entry(<<"$">>, JsObj(<<Entry(<<"n">>, JsNull)>>))>>
DeclLive == <<Entry(<<"$">>, JsObj(<<Entry(<<"p">>, JsStr(<<"v">>))>>))>>
DeclRich == <<Entry(<<"$">>, JsObj(<<Entry(<<"b", "C">>, JsStr(<<"x", " ", "y">>)),
                                     Entry(<<"n">>, JsNull),
                                     Entry(<<"z">>, JsNum(0))>>))>>
DeclEmpty == <<Entry(<<"$">>, JsObj(<<>>))>>

\* A label is a key with the first entries of the node under it.
Label(key, decl) == [key |-> key, decl |-> decl]

\* labels of the trees of any shape
NodeLabels ==
    {Label(k, DeclLive) : k \in {KeyA, KeyPseudo, KeyAt}}
    \cup {Label(k, DeclNone) : k \in {KeyA, KeyAt}}

\* labels of the trees with absent values, an empty key and mixed blocks
RichLabels ==
    {Label(k, d) : k \in {KeyA, KeyAt}, d \in {DeclNull, DeclRich}}
    \cup {Label(KeyPseudo, DeclEmpty), Label(<<>>, DeclRich)}

\* labels of the single-branch trees
ChainLabels ==
    {Label(k, DeclLive) : k \in {KeyA, KeyAmp, KeyAt}} \cup {Label(KeyAt, DeclNone)}

\* entries whose value is no object (the walker skips them)
NonObjectEntries == {Entry(<<"c">>, JsStr(<<"v">>)), Entry(<<"d">>, JsNull)}

entryKeys(entries) == {entries[i].key : i \in 1..Len(entries)}

\* The child entries of a node: forests of at most n nodes with pairwise
\* distinct sibling keys, each node an object of its label's first entries
\* followed by its own child entries, or one of the given leaf entries.
headKeyIsNew(entries) == Head(entries).key \notin entryKeys(Tail(entries))

RECURSIVE KidsUpTo(_, _, _)
KidsUpTo(n, labels, leaves) ==
    IF n = 0 THEN {<<>>}
    ELSE {<<>>}
         \cup UNION {
                {es \in {<<Entry(l.key, JsObj(l.decl \o sub))>> \o rest :
                            l \in labels,
                            sub \in KidsUpTo(i, labels, leaves),
                            rest \in KidsUpTo(n - 1 - i, labels, leaves)} :
                    headKeyIsNew(es)}
                : i \in 0..(n - 1)}
         \cup {es \in {<<e>> \o rest :
                          e \in leaves,
                          rest \in KidsUpTo(n - 1, labels, leaves)} :
                  headKeyIsNew(es)}

\* single-branch trees of depth at most n
RECURSIVE ChainsUpTo(_, _)
ChainsUpTo(n, labels) ==
    IF n = 0 THEN {<<>>}
    ELSE {<<>>} \cup {<<Entry(l.key, JsObj(l.decl \o sub))>> :
                         l \in labels, sub \in ChainsUpTo(n - 1, labels)}

\* the drawn style arguments: undefined, and the trees of the three families
StyleInputs(maxNodes, maxRichNodes, maxChain) ==
    {JsNull}
    \cup {JsObj(kids) : kids \in KidsUpTo(maxNodes, NodeLabels, {})}
    \cup {JsObj(kids) : kids \in KidsUpTo(maxRichNodes, RichLabels, NonObjectEntries)}
    \cup {JsObj(kids) : kids \in ChainsUpTo(maxChain, ChainLabels)}

Formats == {"default", "minify", "pretty"}

\* omit lists of the compiled trees
StyleOmits == {<<<<"a">>>>, <<<<"a", "*">>>>, <<<<"a", " ", "a">>, <<"@", "m">>>>}

OptionsInputs ==
    {NoOptions}
    \cup {ArrayOptions(l) : l \in StyleOmits}
    \cup {ObjectOptions(Absent, Some(f)) : f \in Formats}
    \cup {ObjectOptions(Some(l), Some(f)) : l \in StyleOmits, f \in Formats \ {"default"}}
    \cup {ObjectOptions(Some(<<>>), Absent)}

\* a config.output value
OutputPath == JsStr(<<"o", ".", "c", "s", "s">>)

\* canvas.config: without omit, with omit null, with an omit array, and with
\* a format field, which PlumetConfig does not have
ConfigInputs ==
    {JsObj(<<Entry(OutputKey, OutputPath)>>),
     JsObj(<<Entry(OutputKey, OutputPath), Entry(OmitKey, JsNull)>>),
     JsObj(<<Entry(OutputKey, OutputPath), Entry(FormatKey, JsFormat("pretty"))>>),
     JsObj(<<Entry(OutputKey, OutputPath), Entry(OmitKey, JsArr(<<<<"a">>>>)),
             Entry(FormatKey, JsFormat("minify"))>>)}
    \cup {JsObj(<<Entry(OutputKey, OutputPath), Entry(OmitKey, JsArr(l))>>) :
             l \in StyleOmits \cup {<<>>}}

\* globalConfig: undefined, without format, with format null, with a format,
\* and with an omit field, which PlumetGlobalConfig does not have
GlobalConfigInputs ==
    {JsNull, JsObj(<<>>), JsObj(<<Entry(FormatKey, JsNull)>>),
     JsObj(<<Entry(OmitKey, JsArr(<<<<"a">>>>))>>),
     JsObj(<<Entry(OmitKey, JsArr(<<<<"a">>>>)), Entry(FormatKey, JsFormat("pretty"))>>)}
    \cup {JsObj(<<Entry(FormatKey, JsFormat(f))>>) : f \in Formats}

\* the drawn canvases
CanvasInputs(maxNodes) ==
    {JsObj(<<Entry(ConfigKey, c), Entry(StyleKey, JsObj(kids))>>) :
        c \in ConfigInputs, kids \in KidsUpTo(maxNodes, NodeLabels, {})}

\* names of the units of a canvas map
UnitNames == {<<"h">>, <<"f">>, <<"x">>}

\* units that are canvases: a style of at most one node, with and without omit
UnitConfigs ==
    {JsObj(<<Entry(OutputKey, OutputPath)>>),
     JsObj(<<Entry(OutputKey, OutputPath), Entry(OmitKey, JsArr(<<<<":", "h">>>>))>>)}

UnitStyles ==
    {JsObj(kids) : kids \in KidsUpTo(1, {Label(k, DeclLive) : k \in {KeyA, KeyPseudo, KeyAt}}, {})}
    \ {JsObj(<<>>)}

ValidUnits ==
    {JsObj(<<Entry(ConfigKey, c), Entry(StyleKey, st)>>) : c \in UnitConfigs, st \in UnitStyles}

\* values that are no canvas: falsy values, a string, a number, an array, and
\* objects without config, without a string output, without an object style
InvalidUnits ==
    {JsNull, JsStr(<<>>), JsStr(<<"x">>), JsNum(1), JsArr(<<>>), JsObj(<<>>),
     JsObj(<<Entry(StyleKey, JsObj(DeclNone \o <<Entry(KeyA, JsObj(DeclLive))>>))>>),
     JsObj(<<Entry(ConfigKey, JsObj(<<Entry(OutputKey, JsNum(1))>>)),
             Entry(StyleKey, JsObj(<<Entry(KeyA, JsObj(DeclLive))>>))>>),
     JsObj(<<Entry(ConfigKey, JsObj(<<Entry(OutputKey, OutputPath)>>))>>),
     JsObj(<<Entry(ConfigKey, JsObj(<<Entry(OutputKey, OutputPath)>>)),
             Entry(StyleKey, JsStr(<<"x">>))>>)}

\* objects of at most n entries with pairwise distinct names and the given values
RECURSIVE MapsUpTo(_, _, _)
MapsUpTo(n, names, values) ==
    IF n = 0 THEN {<<>>}
    ELSE {<<>>} \cup {es \in {<<Entry(k, v)>> \o rest :
                                k \in names, v \in values,
                                rest \in MapsUpTo(n - 1, names, values)} :
                         headKeyIsNew(es)}

MapGlobalConfigs ==
    {JsNull, JsObj(<<Entry(FormatKey, JsFormat("pretty"))>>),
     JsObj(<<Entry(FormatKey, JsFormat("minify"))>>)}

\* property names handed to kebabCase: empty, lower case, upper case first,
\* camel case, already hyphenated
CacheKeys == {<<>>, <<"b">>, <<"B">>, <<"b", "C">>, <<"-", "b">>}

\* style trees whose declarations use these names
CacheStyles ==
    {JsObj(<<Entry(KeyA, JsObj(<<Entry(<<"$">>, JsObj(decls))>>))>>) :
        decls \in {<<Entry(<<"b", "C">>, JsStr(<<"x">>))>>,
                   <<Entry(<<"B">>, JsStr(<<"x">>)), Entry(<<"-", "b">>, JsStr(<<"y">>))>>,
                   <<Entry(<<>>, JsStr(<<"x">>)), Entry(<<"b">>, JsNum(0))>>,
                   <<Entry(<<"b">>, JsStr(<<"x">>)), Entry(<<"b", "C">>, JsStr(<<"y">>))>>}}

CacheOptions == {NoOptions, ObjectOptions(Absent, Some("pretty"))}

\* units of a build: canvases with one of two output paths, a falsy value and
\* an object that is no canvas
OtherOutputPath == JsStr(<<"p", ".", "c", "s", "s">>)

BuildUnits ==
    {JsObj(<<Entry(ConfigKey, JsObj(<<Entry(OutputKey, out)>>)),
             Entry(StyleKey, JsObj(<<Entry(KeyA, JsObj(DeclLive))>>))>>) :
        out \in {OutputPath, OtherOutputPath}}
    \cup {JsObj(<<Entry(ConfigKey, JsObj(<<Entry(OutputKey, OutputPath)>>)),
                  Entry(StyleKey, JsObj(<<Entry(KeyAt, JsObj(DeclLive))>>))>>),
          JsNull, JsObj(<<>>)}

\* default exports: the { config, canvas } shape with and without config, the
\* bare canvas map, and values that are neither
ExportInputs(maxUnits) ==
    LET maps == MapsUpTo(maxUnits, UnitNames, BuildUnits)
    IN  {JsObj(<<Entry(CanvasKey, JsObj(units))>>) : units \in maps}
        \cup {JsObj(<<Entry(ConfigKey, JsObj(<<Entry(FormatKey, JsFormat("minify"))>>)),
                      Entry(CanvasKey, JsObj(units))>>) : units \in maps}
        \cup {JsObj(units) : units \in maps}
        \cup {JsNull, JsNum(1), JsArr(<<>>), JsObj(<<Entry(CanvasKey, JsArr(<<<<"x">>>>))>>)}

\* default exports of the watched entry: no PlumetData, and a malformed unit
\* before a canvas
WatchExports ==
    {JsNull,
     JsObj(<<Entry(CanvasKey,
                   JsObj(<<Entry(<<"x">>, JsObj(<<>>)),
                           Entry(<<"h">>,
                                 JsObj(<<Entry(ConfigKey, JsObj(<<Entry(OutputKey, OutputPath)>>)),
                                         Entry(StyleKey,
                                               JsObj(<<Entry(KeyA, JsObj(DeclLive))>>))>>))>>))>>)}

\* states of the two files while watchLoop runs: the imported file is there,
\* the entry may be missing (it then has no imports and cannot be loaded)
FileStates(exports) ==
    {fs \in [entryExists : BOOLEAN, entryImports : BOOLEAN, depExists : {TRUE},
             entryLoad : {[throws |-> TRUE]}
                         \cup {[throws |-> FALSE, default |-> v] : v \in exports}] :
        ~fs.entryExists => fs.entryLoad.throws /\ ~fs.entryImports}

\* the files of the import graphs: the entry and two modules, one found by
\* the first candidate extension and one by the third
EntryFile == <<"e", ".", "t", "s">>
ModuleA == <<"a", ".", "t", "s">>
ModuleB == <<"b", ".", "j", "s">>
FileNames == {EntryFile, ModuleA, ModuleB}

\* import specifiers: the entry with its extension, the modules without, and
\* a bare (package) specifier that would name a.ts if it were resolved
ImportSpecs ==
    {<<".", "/", "e", ".", "t", "s">>, <<".", "/", "a">>, <<".", "/", "b">>, <<"a">>}

\* the directories whose files hold n import statements in all
RECURSIVE GraphsWith(_)
GraphsWith(n) ==
    IF n = 0 THEN {[f \in FileNames |-> File(TRUE, <<>>)]}
    ELSE {[g EXCEPT ![f].imports = Append(@, spec)] :
             g \in GraphsWith(n - 1), f \in FileNames, spec \in ImportSpecs}

\* every directory with up to maxImports import statements; a file without
\* import statements may be missing, and so may the entry
ImportGraphs(maxImports) ==
    UNION {{[f \in FileNames |-> File(present[f], g[f].imports)] :
               present \in {pr \in [FileNames -> BOOLEAN] :
                               \A f \in FileNames : g[f].imports # <<>> => pr[f]}} :
           g \in UNION {GraphsWith(n) : n \in 0..maxImports}}

\* keys and first entries of the trees with at-rules: two at-rule names, with
\* and without own declarations, and a rule
KeyAtN == <<"@", "n">>

AtRuleLabels ==
    {Label(KeyA, DeclLive), Label(KeyAt, DeclLive), Label(KeyAt, DeclNone),
     Label(KeyAtN, DeclRich)}

\* omit lists naming at-rules: a name, a glob for every name, a glob for
\* everything, a rule selector next to a name
AtRuleOmits == {<<KeyAt>>, <<<<"@", "*">>>>, <<<<"*">>>>, <<KeyA, KeyAtN>>}

AtRuleOptions ==
    {ObjectOptions(Absent, Some(f)) : f \in Formats}
    \cup {ObjectOptions(Some(l), Some("pretty")) : l \in AtRuleOmits}
    \cup {ArrayOptions(l) : l \in AtRuleOmits}

(***************************************************************************)
(* Specifications                                                          *)
(***************************************************************************)
ResolverIdle == rsParent = <<>> /\ rsKey = <<>> /\ rsResult = <<>> /\ rsPc = "idle"
MatcherIdle == omOmit = Absent /\ omSelector = <<>> /\ omResult = FALSE /\ omPc = "idle"
CompilerIdle ==
    /\ style = JsNull /\ options = NoOptions /\ css = <<>>
    /\ kebabCache = EmptyCache /\ pc = "idle"

CanvasIdle ==
    /\ canvas = JsNull /\ globalConfig = JsNull /\ canvasCss = <<>> /\ canvasPc = "idle"
    /\ canvasMap = <<>> /\ mapResult = <<>> /\ mapPc = "idle"

CacheIdle == kcKey = <<>> /\ kcResult = <<>> /\ kcPc = "idle" /\ firstCss = <<>>

BuildIdle ==
    /\ entryExists = FALSE /\ entryImports = FALSE /\ depExists = FALSE
    /\ entryLoad = [throws |-> TRUE]
    /\ disk = <<>> /\ builds = <<>> /\ uiLog = <<>> /\ exitCode = 0

WatchIdle ==
    /\ activeWatchers = <<>> /\ closedWatchers = {} /\ watcherCount = 0
    /\ queued = FALSE /\ timers = <<>> /\ evLog = <<>>

CollectorIdle ==
    cdFiles = <<>> /\ cdQueue = <<>> /\ cdSeen = {} /\ cdReads = <<>> /\ cdPc = "idle"

CliIdle == BuildIdle /\ WatchIdle /\ CollectorIdle

ToolsIdle == CanvasIdle /\ CacheIdle /\ CliIdle

\* resolveSelector(rsParent, rsKey)
InitResolve ==
    /\ rsParent \in StringsUpTo(ResolverAlphabet, MaxSelLen)
    /\ rsKey \in StringsUpTo(ResolverAlphabet, MaxSelLen)
    /\ rsResult = <<>>
    /\ rsPc = "call"
    /\ MatcherIdle /\ CompilerIdle /\ ToolsIdle

Resolve ==
    /\ rsPc = "call"
    /\ rsResult' = resolveSelector(rsParent, rsKey)
    /\ rsPc' = "done"
    /\ UNCHANGED <<rsParent, rsKey, matcherVars, compilerVars, toolVars>>

NextResolve == Resolve

SpecResolve == InitResolve /\ [][NextResolve]_vars

\* createOmitMatcher(omOmit)(omSelector)
InitOmit ==
    /\ omOmit \in OmitInputs(MaxPatLen)
    /\ omSelector \in StringsUpTo(SelectorAlphabet, MaxSelLen)
    /\ omResult = FALSE
    /\ omPc = "call"
    /\ ResolverIdle /\ CompilerIdle /\ ToolsIdle

Match ==
    /\ omPc = "call"
    /\ omResult' = isOmitted(omOmit, omSelector)
    /\ omPc' = "done"
    /\ UNCHANGED <<omOmit, omSelector, resolverVars, compilerVars, toolVars>>

NextOmit == Match

SpecOmit == InitOmit /\ [][NextOmit]_vars

\* compileStyle(style, options)
Init ==
    /\ style \in StyleInputs(MaxNodes, MaxRichNodes, MaxChain)
    /\ options \in OptionsInputs
    /\ css = <<>>
    /\ kebabCache = EmptyCache
    /\ pc = "call"
    /\ ResolverIdle /\ MatcherIdle /\ ToolsIdle

Compile ==
    /\ pc = "call"
    /\ LET r == compileStyle(style, options, kebabCache)
       IN  /\ css' = r.out
           /\ kebabCache' = r.cache
    /\ pc' = "done"
    /\ UNCHANGED <<style, options, resolverVars, matcherVars, toolVars>>

Next == Compile

Spec == Init /\ [][Next]_vars

\* compileStyle(style, options) on the trees with at-rules
InitAtRule ==
    /\ style \in {JsObj(kids) : kids \in KidsUpTo(MaxNodes, AtRuleLabels, {})}
    /\ options \in AtRuleOptions
    /\ css = <<>>
    /\ kebabCache = EmptyCache
    /\ pc = "call"
    /\ ResolverIdle /\ MatcherIdle /\ ToolsIdle

NextAtRule == Compile

SpecAtRule == InitAtRule /\ [][NextAtRule]_vars

\* compileCanvas(canvas, globalConfig)
InitCanvas ==
    /\ canvas \in CanvasInputs(MaxCanvasNodes)
    /\ globalConfig \in GlobalConfigInputs
    /\ canvasCss = <<>>
    /\ canvasPc = "call"
    /\ canvasMap = <<>> /\ mapResult = <<>> /\ mapPc = "idle"
    /\ ResolverIdle /\ MatcherIdle /\ CompilerIdle /\ CacheIdle /\ CliIdle

CompileCanvas ==
    /\ canvasPc = "call"
    /\ LET r == compileCanvas(canvas, globalConfig, kebabCache)
       IN  /\ canvasCss' = r.out
           /\ kebabCache' = r.cache
    /\ canvasPc' = "done"
    /\ UNCHANGED <<canvas, globalConfig, canvasMap, mapResult, mapPc,
                   style, options, css, pc, resolverVars, matcherVars, cacheVars,
                   fsVars, buildVars, watcherVars, timerVars, collectorVars>>

NextCanvas == CompileCanvas

SpecCanvas == InitCanvas /\ [][NextCanvas]_vars

\* compileCanvasMap(canvasMap, globalConfig)
InitCanvasMap ==
    /\ canvasMap \in MapsUpTo(MaxUnits, UnitNames, ValidUnits \cup InvalidUnits)
    /\ globalConfig \in MapGlobalConfigs
    /\ mapResult = <<>>
    /\ mapPc = "call"
    /\ canvas = JsNull /\ canvasCss = <<>> /\ canvasPc = "idle"
    /\ ResolverIdle /\ MatcherIdle /\ CompilerIdle /\ CacheIdle /\ CliIdle

CompileCanvasMap ==
    /\ mapPc = "call"
    /\ LET r == compileCanvasMap(canvasMap, globalConfig, kebabCache)
       IN  /\ mapResult' = r.result
           /\ kebabCache' = r.cache
    /\ mapPc' = "done"
    /\ UNCHANGED <<canvas, globalConfig, canvasCss, canvasPc, canvasMap,
                   style, options, css, pc, resolverVars, matcherVars, cacheVars,
                   fsVars, buildVars, watcherVars, timerVars, collectorVars>>

NextCanvasMap == CompileCanvasMap

SpecCanvasMap == InitCanvasMap /\ [][NextCanvasMap]_vars

\* The module-level cache over many calls: compileStyle(style, options), then
\* in any order and number compilations of other trees, direct kebabCase
\* calls and compilations of the same tree again.
InitCache ==
    /\ style \in CacheStyles
    /\ options \in CacheOptions
    /\ css = <<>>
    /\ kebabCache = EmptyCache
    /\ pc = "call"
    /\ CacheIdle
    /\ ResolverIdle /\ MatcherIdle /\ CanvasIdle /\ CliIdle

CompileFirst ==
    /\ pc = "call"
    /\ LET r == compileStyle(style, options, kebabCache)
       IN  /\ css' = r.out
           /\ firstCss' = r.out
           /\ kebabCache' = r.cache
    /\ pc' = "done"
    /\ UNCHANGED <<style, options, kcKey, kcResult, kcPc,
                   resolverVars, matcherVars, canvasVars, fsVars, buildVars, watcherVars, timerVars, collectorVars>>

CompileOther ==
    /\ pc # "call"
    /\ \E other \in CacheStyles, opts \in CacheOptions :
          kebabCache' = compileStyle(other, opts, kebabCache).cache
    /\ UNCHANGED <<style, options, css, pc, cacheVars,
                   resolverVars, matcherVars, canvasVars, fsVars, buildVars, watcherVars, timerVars, collectorVars>>

KebabCase ==
    /\ \E key \in CacheKeys :
          LET r == kebabCase(key, kebabCache)
          IN  /\ kcKey' = key
              /\ kcResult' = r.result
              /\ kebabCache' = r.cache
    /\ kcPc' = "done"
    /\ UNCHANGED <<style, options, css, pc, firstCss,
                   resolverVars, matcherVars, canvasVars, fsVars, buildVars, watcherVars, timerVars, collectorVars>>

CompileAgain ==
    /\ pc # "call"
    /\ LET r == compileStyle(style, options, kebabCache)
       IN  /\ css' = r.out
           /\ kebabCache' = r.cache
    /\ pc' = "again"
    /\ UNCHANGED <<style, options, cacheVars, resolverVars, matcherVars, canvasVars,
                   fsVars, buildVars, watcherVars, timerVars, collectorVars>>

NextCache == CompileFirst \/ CompileOther \/ KebabCase \/ CompileAgain

SpecCache == InitCache /\ [][NextCache]_vars

\* ---- the steps of build(), each the continuation of one await ----

\* build() returns; in watch mode watchLoop goes on in the same turn with
\* resetWatchers(result.deps) (deps is set and holds the entry whenever
\* build returns, so the collectDeps branch is never taken)
Return(id, b, calls, code) ==
    /\ builds' = [builds EXCEPT ![id] = Returned(b)]
    /\ uiLog' = uiLog \o calls
    /\ exitCode' = code
    /\ kebabCache' = kebabCache
    /\ IF b.watchMode
       THEN /\ activeWatchers' = resetWatchers(activeWatchers, b.deps.val, watcherCount,
                                               entryExists, depExists)
            /\ closedWatchers' = closedWatchers \cup closedBy(activeWatchers, b.deps.val)
            /\ watcherCount' = watcherCount
                                 + Len(watchedAnew(activeWatchers, b.deps.val,
                                                   entryExists, depExists))
       ELSE UNCHANGED watcherVars

\* the loop of build() from unit b.i on: to compileCanvas and the await of
\* mkdir for the next canvas, or through the report to the return
Proceed(id, b, calls, next, compiled) ==
    IF next.pc = "mkdir"
    THEN /\ builds' = [builds EXCEPT ![id] = [next EXCEPT !.css = compiled.out]]
         /\ kebabCache' = compiled.cache
         /\ uiLog' = uiLog \o calls
         /\ UNCHANGED <<exitCode, watcherVars>>
    ELSE Return(id, next, calls \o reportCalls(next), reportExitCode(next, exitCode))

Loop(id, b, calls) ==
    Proceed(id, b, calls, loopToAwait(b),
            compileCanvas(loopToAwait(b).units[loopToAwait(b).i].val,
                          loopToAwait(b).globalConfig, kebabCache))

\* `deps = await collectDependencies(entryPath)`
DepsCollected(id) ==
    /\ builds[id].pc = "deps"
    /\ builds' = [builds EXCEPT ![id].deps = Some(collectedDeps(entryExists, entryImports,
                                                                depExists)),
                                ![id].pc = "import"]
    /\ UNCHANGED <<kebabCache, disk, uiLog, exitCode, fsVars, watcherVars, timerVars,
                   generatorVars, collectorVars>>

\* the lines of ui.info
infoCalls(b, config) ==
    IF b.watchMode THEN <<>>
    ELSE <<UiCall("info", <<Line("entry", <<>>, "entry path"),
                            Line("format", <<>>,
                                 IF prop(config, FormatKey).t = "format"
                                 THEN prop(config, FormatKey).f ELSE "default")>>)>>

\* `loaded = await import(moduleUrl)` and what follows it without an await
Imported(id) ==
    /\ builds[id].pc = "import"
    /\ LET b == builds[id]
       IN  IF ~entryExists \/ entryLoad.throws
           THEN Return(id, b, rejectCalls(b, "failed to load entry"),
                       rejectExitCode(b, exitCode))
           ELSE IF ~normalizePlumetData(entryLoad.default).some
                THEN Return(id, b,
                            infoCalls(b, JsNull)
                            \o rejectCalls(b, "default export must be PlumetData"),
                            rejectExitCode(b, exitCode))
           ELSE Loop(id,
                     [b EXCEPT !.units = entriesOf(normalizePlumetData(entryLoad.default).val.canvas),
                               !.globalConfig = normalizePlumetData(entryLoad.default).val.config],
                     infoCalls(b, normalizePlumetData(entryLoad.default).val.config))
    /\ UNCHANGED <<disk, fsVars, timerVars, generatorVars, collectorVars>>

\* `await mkdir(dirname(outputPath))`
MkdirDone(id) ==
    /\ builds[id].pc = "mkdir"
    /\ \E ok \in BOOLEAN :
          IF ok
          THEN /\ builds' = [builds EXCEPT ![id].pc = "write"]
               /\ UNCHANGED <<kebabCache, uiLog, exitCode, watcherVars>>
          ELSE Loop(id, pushFailed(builds[id]), <<>>)
    /\ UNCHANGED <<disk, fsVars, timerVars, generatorVars, collectorVars>>

\* `await writeFile(outputPath, css)`
WriteDone(id) ==
    /\ builds[id].pc = "write"
    /\ \E ok \in BOOLEAN :
          IF ok
          THEN /\ disk' = writeFile(disk, outputPath(builds[id]), builds[id].css)
               /\ builds' = [builds EXCEPT ![id].pc = "stat"]
               /\ UNCHANGED <<kebabCache, uiLog, exitCode, watcherVars>>
          ELSE /\ Loop(id, pushFailed(builds[id]), <<>>)
               /\ UNCHANGED disk
    /\ UNCHANGED <<fsVars, timerVars, generatorVars, collectorVars>>

\* `await stat(outputPath)`
StatDone(id) ==
    /\ builds[id].pc = "stat"
    /\ \E ok \in BOOLEAN :
          Loop(id, IF ok THEN pushBuilt(builds[id]) ELSE pushFailed(builds[id]), <<>>)
    /\ UNCHANGED <<disk, fsVars, timerVars, generatorVars, collectorVars>>

BuildStep(id) ==
    DepsCollected(id) \/ Imported(id) \/ MkdirDone(id) \/ WriteDone(id) \/ StatDone(id)

\* main(): `plumet build`, without --watch or, with --watch, up to the end of
\* the initial build of watchLoop
InitBuild ==
    /\ entryExists \in BOOLEAN
    /\ entryImports \in BOOLEAN
    /\ depExists = entryImports
    /\ entryLoad \in {[throws |-> TRUE]}
                     \cup {[throws |-> FALSE, default |-> v] : v \in ExportInputs(MaxUnits)}
    /\ (~entryExists => entryLoad = [throws |-> TRUE] /\ ~entryImports)
    /\ disk = <<>> /\ uiLog = <<>> /\ exitCode = 0
    /\ builds \in {<<NewBuild(watchMode)>> : watchMode \in BOOLEAN}
    /\ WatchIdle /\ CollectorIdle
    /\ ResolverIdle /\ MatcherIdle /\ CompilerIdle /\ CanvasIdle /\ CacheIdle

NextBuild == BuildStep(1)

SpecBuild == InitBuild /\ [][NextBuild]_vars

\* ---- watchLoop ----

\* the callback of the watcher of `file` (filename is given, or `file` is used)
ChangeEvent(file) ==
    /\ file \in DOMAIN activeWatchers
    /\ countOf(evLog, "change") < MaxEvents
    /\ queued' = scheduleBuild(queued, timers, file).queued
    /\ timers' = scheduleBuild(queued, timers, file).timers
    /\ evLog' = Append(evLog, Changed(file))
    /\ UNCHANGED <<fsVars, buildVars, watcherVars, kebabCache, generatorVars, collectorVars>>

\* the timer callback without `queued = false`
TimerFire_KeepsQueued ==
    /\ timers # <<>>
    /\ queued' = queued
    /\ timers' = Tail(timers)
    /\ uiLog' = Append(uiLog, UiCall("watch", <<Line("modified", Head(timers), "changed file")>>))
    /\ builds' = Append(builds, NewBuild(TRUE))
    /\ evLog' = Append(evLog, Fired)
    /\ UNCHANGED <<fsVars, disk, exitCode, watcherVars, kebabCache, generatorVars, collectorVars>>

\* the callback of the oldest timer (all have the same delay), up to the
\* first await of build(true)
TimerFire ==
    /\ timers # <<>>
    /\ queued' = FALSE
    /\ timers' = Tail(timers)
    /\ uiLog' = Append(uiLog, UiCall("watch", <<Line("modified", Head(timers), "changed file")>>))
    /\ builds' = Append(builds, NewBuild(TRUE))
    /\ evLog' = Append(evLog, Fired)
    /\ UNCHANGED <<fsVars, disk, exitCode, watcherVars, kebabCache, generatorVars, collectorVars>>

\* someone saves the entry, with a syntax error or with canvases again
Edit ==
    /\ entryExists
    /\ entryLoad' \in ({[throws |-> TRUE]}
                       \cup {[throws |-> FALSE, default |-> v] : v \in WatchExports \ {JsNull}})
                      \ {entryLoad}
    /\ UNCHANGED <<entryExists, entryImports, depExists, buildVars, watcherVars, timerVars,
                   kebabCache, generatorVars, collectorVars>>

\* main() with --watch: watchLoop has called build(true)
InitWatch ==
    /\ \E fs \in FileStates(WatchExports) :
          /\ entryExists = fs.entryExists
          /\ entryImports = fs.entryImports
          /\ depExists = fs.depExists
          /\ entryLoad = fs.entryLoad
    /\ disk = <<>> /\ uiLog = <<>> /\ exitCode = 0
    /\ builds = <<NewBuild(TRUE)>>
    /\ WatchIdle /\ CollectorIdle
    /\ ResolverIdle /\ MatcherIdle /\ CompilerIdle /\ CanvasIdle /\ CacheIdle

NextWatch ==
    \/ \E id \in DOMAIN builds : BuildStep(id)
    \/ \E file \in {EntryPath, DepPath} : ChangeEvent(file)
    \/ TimerFire
    \/ Edit

SpecWatch == InitWatch /\ [][NextWatch]_vars

\* watchLoop on Node's event loop: a timer that is due has its callback run
\* (the callback is enabled for as long as its timer is pending)
SpecWatchLive == InitWatch /\ [][NextWatch]_vars /\ WF_vars(TimerFire)

\* ---- watchLoop while the imports of the entry change ----

\* someone saves the entry with the import added or removed
EditImports ==
    /\ entryExists
    /\ entryImports' = ~entryImports
    /\ UNCHANGED <<entryExists, depExists, entryLoad, buildVars, watcherVars, timerVars,
                   kebabCache, generatorVars, collectorVars>>

\* someone deletes the imported file, or puts it back
TouchDep ==
    /\ depExists' = ~depExists
    /\ UNCHANGED <<entryExists, entryImports, entryLoad, buildVars, watcherVars, timerVars,
                   kebabCache, generatorVars, collectorVars>>

NextWatchDeps ==
    \/ \E id \in DOMAIN builds : BuildStep(id)
    \/ \E file \in {EntryPath, DepPath} : ChangeEvent(file)
    \/ TimerFire
    \/ EditImports
    \/ TouchDep

SpecWatchDeps == InitWatch /\ [][NextWatchDeps]_vars

\* ---- collectDependencies(entryPath) ----

InitCollect ==
    /\ cdFiles \in ImportGraphs(MaxImports)
    /\ cdQueue = <<EntryFile>>
    /\ cdSeen = {}
    /\ cdReads = <<>>
    /\ cdPc = "loop"
    /\ BuildIdle /\ WatchIdle
    /\ ResolverIdle /\ MatcherIdle /\ CompilerIdle /\ CanvasIdle /\ CacheIdle

\* one pass of the while loop
CollectPass ==
    /\ cdPc = "loop" /\ cdQueue # <<>>
    /\ cdQueue' = whilePass(cdFiles, cdQueue, cdSeen, cdReads).queue
    /\ cdSeen' = whilePass(cdFiles, cdQueue, cdSeen, cdReads).seen
    /\ cdReads' = whilePass(cdFiles, cdQueue, cdSeen, cdReads).reads
    /\ UNCHANGED <<cdFiles, cdPc, fsVars, buildVars, watcherVars, timerVars, kebabCache,
                   generatorVars>>

\* `return seen`
CollectReturn ==
    /\ cdPc = "loop" /\ cdQueue = <<>>
    /\ cdPc' = "returned"
    /\ UNCHANGED <<cdFiles, cdQueue, cdSeen, cdReads, fsVars, buildVars, watcherVars,
                   timerVars, kebabCache, generatorVars>>

NextCollect == CollectPass \/ CollectReturn

\* the awaited readFile and access calls settle
SpecCollect == InitCollect /\ [][NextCollect]_vars /\ WF_vars(NextCollect)

(***************************************************************************)
(* Vocabulary of the properties                                            *)
(***************************************************************************)
chars(s) == {s[i] : i \in 1..Len(s)}

count(s, ch) == Cardinality({i \in 1..Len(s) : s[i] = ch})

isSubstring(t, s) ==
    \E i \in 0..(Len(s) - Len(t)) : SubSeq(s, i + 1, i + Len(t)) = t

\* key with every "&" replaced by parent, character by character
RECURSIVE replaceEvery(_, _)
replaceEvery(key, parent) ==
    IF key = <<>> THEN <<>>
    ELSE (IF Head(key) = "&" THEN parent ELSE <<Head(key)>>)
         \o replaceEvery(Tail(key), parent)

\* glob matching: "*" is any character sequence, every other character itself
RECURSIVE globMatches(_, _)
globMatches(pattern, s) ==
    IF pattern = <<>> THEN s = <<>>
    ELSE IF Head(pattern) = "*"
         THEN \/ globMatches(Tail(pattern), s)
              \/ s # <<>> /\ globMatches(pattern, Tail(s))
    ELSE s # <<>> /\ Head(s) = Head(pattern) /\ globMatches(Tail(pattern), Tail(s))

\* ---- style trees: paths, scopes, survivors ----

\* an entry the walker treats as a node: key neither "" nor "$", value an object
isNodeEntry(e) == e.key # <<>> /\ e.key # <<"$">> /\ e.val.t = "obj"

isAtKey(key) == Head(key) = "@"

\* paths (index sequences) of all nodes below the object with entries es
RECURSIVE nodePaths(_)
nodePaths(es) ==
    UNION {{<<i>>} \cup {<<i>> \o q : q \in nodePaths(es[i].val.o)} :
              i \in {j \in 1..Len(es) : isNodeEntry(es[j])}}

RECURSIVE entryAt(_, _)
entryAt(es, p) ==
    IF Len(p) = 1 THEN es[p[1]] ELSE entryAt(es[p[1]].val.o, Tail(p))

keyAt(es, p) == entryAt(es, p).key
nodeAt(es, p) == entryAt(es, p).val.o
isRulePath(es, p) == ~isAtKey(keyAt(es, p))
isAtPath(es, p) == isAtKey(keyAt(es, p))

\* The selector scope at path p, starting from scope sel: every rule key on
\* the path resolves against the scope so far, every at-rule key leaves the
\* scope as it is.
RECURSIVE scopeAt(_, _, _)
scopeAt(es, p, sel) ==
    LET e == es[p[1]]
        next == IF isAtKey(e.key) THEN sel ELSE resolveSelector(sel, e.key)
    IN  IF Len(p) = 1 THEN next ELSE scopeAt(e.val.o, Tail(p), next)

selectorAt(es, p) == scopeAt(es, p, <<>>)

prefixes(p) == {SubSeq(p, 1, n) : n \in 1..Len(p)}

\* the rule node at p has a resolved selector that an omit pattern matches
omittedAt(es, p, omit) == isRulePath(es, p) /\ isOmitted(omit, selectorAt(es, p))

\* neither the node at p nor any node above it is excluded
reached(es, p, omit) == \A q \in prefixes(p) : ~omittedAt(es, q, omit)

\* the declarations of a node object whose value is present
presentDecls(nodeEntries) ==
    LET d == getProp(nodeEntries, <<"$">>)
    IN  IF d.t = "obj" THEN SelectSeq(d.o, LAMBDA e : e.val.t # "null") ELSE <<>>

\* some declaration with a present value lies in the node or in a part of its
\* subtree that no omit pattern cuts off (sel is the node's selector scope)
RECURSIVE hasLive(_, _, _)
hasLive(nodeEntries, sel, omit) ==
    \/ presentDecls(nodeEntries) # <<>>
    \/ \E i \in 1..Len(nodeEntries) :
          /\ isNodeEntry(nodeEntries[i])
          /\ IF isAtKey(nodeEntries[i].key)
             THEN hasLive(nodeEntries[i].val.o, sel, omit)
             ELSE LET child == resolveSelector(sel, nodeEntries[i].key)
                  IN  ~isOmitted(omit, child) /\ hasLive(nodeEntries[i].val.o, child, omit)

\* the tree without the entry at p
RECURSIVE removeAt(_, _)
removeAt(es, p) ==
    IF Len(p) = 1
    THEN SubSeq(es, 1, p[1] - 1) \o SubSeq(es, p[1] + 1, Len(es))
    ELSE [es EXCEPT ![p[1]] = Entry(@.key, JsObj(removeAt(@.val.o, Tail(p))))]

\* the tree without the absent-valued declarations of its `$` blocks
RECURSIVE withoutAbsent(_)
withoutAbsent(es) ==
    [i \in 1..Len(es) |->
        IF es[i].val.t # "obj" THEN es[i]
        ELSE IF es[i].key = <<"$">>
             THEN Entry(es[i].key, JsObj(SelectSeq(es[i].val.o, LAMBDA e : e.val.t # "null")))
        ELSE Entry(es[i].key, JsObj(withoutAbsent(es[i].val.o)))]

\* the options as given: the omit list and the format, where present
givenOmit(opts) ==
    IF opts.kind = "array" THEN Some(opts.omit)
    ELSE IF opts.kind = "object" THEN opts.omit
    ELSE Absent

givenFormat(opts) ==
    IF opts.kind = "object" /\ opts.format.some THEN opts.format.val ELSE "default"

\* compileStyle's output for the same options with another format
cssIn(format) ==
    compileStyle(style, ObjectOptions(givenOmit(options), Some(format)), EmptyCache).out

\* ---- output text ----

Whitespace == {" ", "\n"}

stripWhitespace(s) == SelectSeq(s, LAMBDA c : c \notin Whitespace)

RECURSIVE trimLeft(_)
trimLeft(s) == IF s # <<>> /\ Head(s) = " " THEN trimLeft(Tail(s)) ELSE s

RECURSIVE trimRight(_)
trimRight(s) ==
    IF s # <<>> /\ s[Len(s)] = " " THEN trimRight(SubSeq(s, 1, Len(s) - 1)) ELSE s

\* the indices of a text, in order
indices(text) == [i \in 1..Len(text) |-> i]

\* The headers of the output: each maximal run free of "{", "}", ";" and
\* newline that a "{" ends, without its leading and trailing spaces.  (No key,
\* name or value of the drawn trees holds one of these four characters.)
headerBefore(text, i) ==
    LET stops == {j \in 1..(i - 1) : text[j] \in {"{", "}", ";", "\n"}}
        start == IF stops = {} THEN 1
                 ELSE 1 + (CHOOSE m \in stops : \A x \in stops : x <= m)
    IN  trimRight(trimLeft(SubSeq(text, start, i - 1)))

headers(text) ==
    LET at == SelectSeq(indices(text), LAMBDA i : text[i] = "{")
    IN  [k \in 1..Len(at) |-> headerBefore(text, at[k])]

headerSet(text) == {headerBefore(text, i) : i \in {j \in 1..Len(text) : text[j] = "{"}}

\* no "{" is followed, whitespace aside, by "}"
RECURSIVE nextVisible(_, _)
nextVisible(text, i) ==
    IF i > Len(text) THEN ""
    ELSE IF text[i] \in Whitespace THEN nextVisible(text, i + 1)
    ELSE text[i]

noEmptyBraces(text) ==
    \A i \in 1..Len(text) : text[i] = "{" => nextVisible(text, i + 1) # "}"

\* prop:value; for each present declaration, written out from the source names
RECURSIVE declText(_)
declText(decls) ==
    IF decls = <<>> THEN <<>>
    ELSE kebabLoop(Head(decls).key) \o <<":">> \o toString(Head(decls).val) \o <<";">>
         \o declText(Tail(decls))

\* the sum of the values of a function with a finite domain
RECURSIVE sumOf(_)
sumOf(f) ==
    IF DOMAIN f = {} THEN 0
    ELSE LET x == CHOOSE y \in DOMAIN f : TRUE
         IN  f[x] + sumOf([y \in DOMAIN f \ {x} |-> f[y]])

(***************************************************************************)
(* C1: resolveSelector(P, K) is K with every "&" replaced by P when K      *)
(* contains "&" (also when K starts with ":"); otherwise P+K when K starts *)
(* with ":"; otherwise P+" "+K when P is non-empty; otherwise K.           *)
(***************************************************************************)
C1_ResolveSelector ==
    rsPc = "done" =>
        rsResult =
            IF "&" \in chars(rsKey) THEN replaceEvery(rsKey, rsParent)
            ELSE IF rsKey # <<>> /\ Head(rsKey) = ":" THEN rsParent \o rsKey
            ELSE IF rsParent # <<>> THEN rsParent \o <<" ">> \o rsKey
            ELSE rsKey

\* a key that starts with ":" and holds two "&", resolved under a parent
C1_Witness ==
    /\ rsPc = "done"
    /\ rsParent = <<"a", "a">>
    /\ rsKey = <<":", "&", "&">>
    /\ rsResult = <<":", "a", "a", "a", "a">>

(***************************************************************************)
(* C3: a selector is excluded iff some omit pattern glob-matches all of    *)
(* it, "*" standing for any (possibly empty) character sequence and every  *)
(* other character for itself; with no pattern nothing is excluded.        *)
(***************************************************************************)
C3_AnchoredGlob ==
    omPc = "done" =>
        (omResult <=>
            /\ omOmit.some
            /\ \E i \in 1..Len(omOmit.val) : globMatches(omOmit.val[i], omSelector))

(***************************************************************************)
(* C2: exclusion is subtree-wide.  When the resolved selector of a node    *)
(* matches an omit pattern, the output holds nothing of the node or of any *)
(* descendant: it is the output of the tree with that subtree cut out,     *)
(* whether or not the descendants' own selectors match a pattern.          *)
(***************************************************************************)
C2_SubtreeExcluded ==
    (pc = "done" /\ style.t = "obj") =>
        \A p \in nodePaths(style.o) :
            omittedAt(style.o, p, givenOmit(options)) =>
                css = compileStyle(JsObj(removeAt(style.o, p)), options, EmptyCache).out

\* an excluded node with a child that has a declaration and whose own selector
\* matches no pattern, beside a rule that is emitted
C2_Witness ==
    /\ pc = "done" /\ style.t = "obj" /\ css # <<>>
    /\ \E p \in nodePaths(style.o) :
          /\ Len(p) >= 2
          /\ isRulePath(style.o, p)
          /\ omittedAt(style.o, SubSeq(p, 1, Len(p) - 1), givenOmit(options))
          /\ ~isOmitted(givenOmit(options), selectorAt(style.o, p))
          /\ presentDecls(nodeAt(style.o, p)) # <<>>

(***************************************************************************)
(* C4: at-rules do not change the selector scope.  The rules of the output *)
(* are exactly the rule nodes that are reached and have a present          *)
(* declaration, each under the selector obtained by resolving the rule     *)
(* keys on its path and skipping the at-rule keys; a header holding "@" is *)
(* an at-rule key of the tree, whole.                                      *)
(***************************************************************************)
C4_AtRuleKeepsScope ==
    (pc = "done" /\ style.t = "obj") =>
        LET es == style.o
            omit == givenOmit(options)
            hs == headerSet(css)
        IN  /\ \A h \in hs :
                  "@" \in chars(h) =>
                      \E p \in nodePaths(es) : isAtPath(es, p) /\ keyAt(es, p) = h
            /\ {h \in hs : "@" \notin chars(h)}
                  = {selectorAt(es, p) :
                        p \in {q \in nodePaths(es) :
                                  /\ isRulePath(es, q)
                                  /\ reached(es, q, omit)
                                  /\ presentDecls(nodeAt(es, q)) # <<>>}}

\* rule > at-rule > at-rule > rule: the inner rule is emitted under the outer
\* rule's selector resolved with its own key
C4_Witness ==
    /\ pc = "done" /\ style.t = "obj"
    /\ \E p \in nodePaths(style.o) :
          /\ Len(p) = 4
          /\ isRulePath(style.o, SubSeq(p, 1, 1))
          /\ isAtPath(style.o, SubSeq(p, 1, 2))
          /\ isAtPath(style.o, SubSeq(p, 1, 3))
          /\ isRulePath(style.o, p)
          /\ presentDecls(nodeAt(style.o, p)) # <<>>
          /\ selectorAt(style.o, p)
                = resolveSelector(resolveSelector(<<>>, keyAt(style.o, SubSeq(p, 1, 1))),
                                  keyAt(style.o, p))
          /\ selectorAt(style.o, p) \in headerSet(css)

(***************************************************************************)
(* C5: exclusion inside at-rules.  A rule directly inside an at-rule that  *)
(* is reached is cut out with its subtree when its selector, resolved      *)
(* against the enclosing rule's selector, matches an omit pattern, and     *)
(* otherwise it and the rules below it are emitted as outside an at-rule.  *)
(***************************************************************************)
C5_OmitInsideAtRule ==
    (pc = "done" /\ style.t = "obj") =>
        LET es == style.o
            omit == givenOmit(options)
        IN  \A p \in nodePaths(es) :
                (/\ Len(p) >= 2
                 /\ isRulePath(es, p)
                 /\ isAtPath(es, SubSeq(p, 1, Len(p) - 1))
                 /\ reached(es, SubSeq(p, 1, Len(p) - 1), omit))
                =>
                IF isOmitted(omit, scopeAt(es, p, <<>>))
                THEN css = compileStyle(JsObj(removeAt(es, p)), options, EmptyCache).out
                ELSE \A q \in nodePaths(es) :
                        (/\ p \in prefixes(q)
                         /\ isRulePath(es, q)
                         /\ reached(es, q, omit)
                         /\ presentDecls(nodeAt(es, q)) # <<>>)
                        => selectorAt(es, q) \in headerSet(css)

\* an at-rule with two rules that have declarations: one excluded, one emitted
C5_Witness ==
    /\ pc = "done" /\ style.t = "obj"
    /\ \E p \in nodePaths(style.o), q \in nodePaths(style.o) :
          /\ Len(p) >= 2 /\ Len(q) = Len(p)
          /\ SubSeq(p, 1, Len(p) - 1) = SubSeq(q, 1, Len(q) - 1)
          /\ isAtPath(style.o, SubSeq(p, 1, Len(p) - 1))
          /\ isRulePath(style.o, p) /\ isRulePath(style.o, q)
          /\ presentDecls(nodeAt(style.o, p)) # <<>>
          /\ presentDecls(nodeAt(style.o, q)) # <<>>
          /\ isOmitted(givenOmit(options), selectorAt(style.o, p))
          /\ selectorAt(style.o, p) \notin headerSet(css)
          /\ reached(style.o, q, givenOmit(options))
          /\ selectorAt(style.o, q) \in headerSet(css)

(***************************************************************************)
(* C6: absent values are omitted.  In every format the output is that of   *)
(* the tree without its null / undefined declarations, the name "n" (in    *)
(* the drawn trees the name of the absent-valued declarations, and of no   *)
(* other text) occurs nowhere in it, no rule is emitted with nothing       *)
(* between its braces, and a tree in which no node has a declaration with  *)
(* a present value compiles to the empty string.                           *)
(***************************************************************************)
C6_AbsentValuesOmitted ==
    (pc = "done" /\ style.t = "obj") =>
        /\ css = compileStyle(JsObj(withoutAbsent(style.o)), options, EmptyCache).out
        /\ "n" \notin chars(css)
        /\ noEmptyBraces(css)
        /\ (\A p \in nodePaths(style.o) : presentDecls(nodeAt(style.o, p)) = <<>>)
              => css = <<>>

\* a rule whose block mixes present and absent values is emitted in the pretty
\* format, next to a node whose block holds an absent value only
C6_Witness ==
    /\ pc = "done" /\ style.t = "obj"
    /\ givenFormat(options) = "pretty"
    /\ isSubstring(<<"b", "-", "c", ":", " ", "x", " ", "y", ";", "\n",
                     " ", " ", "z", ":", " ", "0", ";", "\n", "}">>, css)
    /\ \E p \in nodePaths(style.o) :
          getProp(nodeAt(style.o, p), <<"$">>) = JsObj(<<Entry(<<"n">>, JsNull)>>)

(***************************************************************************)
(* C7: an at-rule with an empty body emits nothing.  In every format the   *)
(* output holds one "@" (the first character of an at-rule name, and of no *)
(* other text of the drawn trees) for each at-rule that is reached and has *)
(* a surviving declaration in its body, and none for any other at-rule;    *)
(* no at-rule is emitted with nothing between its braces.                  *)
(***************************************************************************)
C7_EmptyAtRuleEmitsNothing ==
    (pc = "done" /\ style.t = "obj") =>
        LET es == style.o
            omit == givenOmit(options)
        IN  /\ count(css, "@")
                  = Cardinality({p \in nodePaths(es) :
                                    /\ isAtPath(es, p)
                                    /\ reached(es, p, omit)
                                    /\ hasLive(nodeAt(es, p), selectorAt(es, p), omit)})
            /\ noEmptyBraces(css)

\* an at-rule inside a rule whose body is empty only because the omit list
\* excludes its rules, while the enclosing rule is emitted
C7_Witness ==
    /\ pc = "done" /\ style.t = "obj" /\ css # <<>>
    /\ "@" \notin chars(css)
    /\ \E p \in nodePaths(style.o) :
          /\ Len(p) >= 2
          /\ isAtPath(style.o, p)
          /\ reached(style.o, p, givenOmit(options))
          /\ ~hasLive(nodeAt(style.o, p), selectorAt(style.o, p), givenOmit(options))
          /\ hasLive(nodeAt(style.o, p), selectorAt(style.o, p), Absent)

(***************************************************************************)
(* C8: the default format.  With no format given (no options at all, an    *)
(* omit array, an options object without format) or format "default",      *)
(* every emitted rule is selector{prop:value;...}newline and every emitted *)
(* at-rule is name{body}newline, and the output holds no other character:  *)
(* its length is the sum of the lengths of these texts.                    *)
(***************************************************************************)
C8_DefaultFormat ==
    (pc = "done" /\ style.t = "obj" /\ givenFormat(options) = "default") =>
        LET es == style.o
            omit == givenOmit(options)
            rules == {p \in nodePaths(es) :
                         /\ isRulePath(es, p)
                         /\ reached(es, p, omit)
                         /\ presentDecls(nodeAt(es, p)) # <<>>}
            atRules == {p \in nodePaths(es) :
                           /\ isAtPath(es, p)
                           /\ reached(es, p, omit)
                           /\ hasLive(nodeAt(es, p), selectorAt(es, p), omit)}
            ruleText(p) == selectorAt(es, p) \o <<"{">>
                           \o declText(presentDecls(nodeAt(es, p))) \o <<"}", "\n">>
            atRuleOpen(p) == keyAt(es, p) \o <<"{">> \o declText(presentDecls(nodeAt(es, p)))
        IN  /\ \A p \in rules : isSubstring(ruleText(p), css)
            /\ \A p \in atRules : isSubstring(atRuleOpen(p), css)
            /\ \A i \in 1..Len(css) : css[i] = "}" => (i < Len(css) /\ css[i + 1] = "\n")
            /\ count(css, "\n") = count(css, "}")
            /\ count(css, "{") = Cardinality(rules) + Cardinality(atRules)
            /\ Len(css) = sumOf([p \in rules |-> Len(ruleText(p))])
                          + sumOf([p \in atRules |-> Len(atRuleOpen(p)) + 2])

\* compileStyle without options emits an at-rule with a rule in it
C8_Witness ==
    /\ pc = "done" /\ style.t = "obj"
    /\ options = NoOptions
    /\ css = <<"@", "m", "{", "p", ":", "v", ";", "a", "{", "p", ":", "v", ";", "}", "\n",
               "}", "\n">>

(***************************************************************************)
(* C9: minify is default without the newline after each closing brace.     *)
(* The minify output is the default output of the same tree and omit list  *)
(* with every newline that follows a "}" removed, one per "}", and both    *)
(* outputs list the same rules and at-rules in the same order.             *)
(***************************************************************************)
dropBraceNewlines(text) ==
    LET kept == SelectSeq(indices(text),
                          LAMBDA i : ~(i > 1 /\ text[i] = "\n" /\ text[i - 1] = "}"))
    IN  [k \in 1..Len(kept) |-> text[kept[k]]]

C9_MinifyIsDefaultWithoutNewlines ==
    (pc = "done" /\ style.t = "obj" /\ givenFormat(options) = "minify") =>
        LET default == cssIn("default")
        IN  /\ css = dropBraceNewlines(default)
            /\ Len(default) - Len(css) = count(default, "}")
            /\ headers(css) = headers(default)

\* a minify output with an at-rule and two rules
C9_Witness ==
    /\ pc = "done" /\ style.t = "obj"
    /\ givenFormat(options) = "minify"
    /\ count(css, "@") = 1
    /\ count(css, "}") = 3
    /\ "\n" \notin chars(css)

(***************************************************************************)
(* C10 as stated: the pretty output without its whitespace is the minify   *)
(* output of the same input, up to a trailing newline.                     *)
(***************************************************************************)
dropTrailingNewline(text) ==
    IF text # <<>> /\ text[Len(text)] = "\n" THEN SubSeq(text, 1, Len(text) - 1) ELSE text

C10_PrettyStrippedIsMinify ==
    (pc = "done" /\ style.t = "obj" /\ givenFormat(options) = "pretty") =>
        dropTrailingNewline(stripWhitespace(css)) = dropTrailingNewline(cssIn("minify"))

(***************************************************************************)
(* C10 amended: the pretty output without its whitespace is the minify     *)
(* output of the same input without its whitespace.                        *)
(***************************************************************************)
C10_PrettyIsMinifyModuloWhitespace ==
    (pc = "done" /\ style.t = "obj" /\ givenFormat(options) = "pretty") =>
        stripWhitespace(css) = stripWhitespace(cssIn("minify"))

\* a pretty output with a descendant selector, which holds a space in both formats
C10_Witness ==
    /\ pc = "done" /\ style.t = "obj"
    /\ givenFormat(options) = "pretty"
    /\ <<"a", " ", "a">> \in headerSet(css)
    /\ <<"a", " ", "a">> \in headerSet(cssIn("minify"))
    /\ "@" \in chars(css)

(***************************************************************************)
(* C11: compileCanvas(canvas, globalConfig) is compileStyle(canvas.style)  *)
(* with the omit list of canvas.config.omit alone (none when it is absent) *)
(* and the format of globalConfig.format alone ("default" when it is       *)
(* absent), whichever of the two are present.                              *)
(***************************************************************************)
canvasOmit(c) ==
    LET o == prop(prop(c, ConfigKey), OmitKey) IN IF o.t = "arr" THEN Some(o.a) ELSE Absent

globalFormat(g) ==
    LET f == prop(g, FormatKey) IN IF f.t = "format" THEN f.f ELSE "default"

styleCss(style_, omit, format) ==
    compileStyle(style_, ObjectOptions(omit, Some(format)), EmptyCache).out

C11_CanvasIsStyleWithOwnOmitAndGlobalFormat ==
    canvasPc = "done" =>
        canvasCss = styleCss(prop(canvas, StyleKey), canvasOmit(canvas),
                             globalFormat(globalConfig))

\* omit and format both present, each changing the output, next to a format
\* in the canvas config and an omit list in the global config
C11_Witness ==
    /\ canvasPc = "done" /\ canvasCss # <<>>
    /\ canvasOmit(canvas) = Some(<<<<"a">>>>)
    /\ prop(prop(canvas, ConfigKey), FormatKey) = JsFormat("minify")
    /\ globalFormat(globalConfig) = "pretty"
    /\ prop(globalConfig, OmitKey) # JsNull
    /\ canvasCss # styleCss(prop(canvas, StyleKey), Absent, "pretty")
    /\ canvasCss # styleCss(prop(canvas, StyleKey), canvasOmit(canvas), "minify")

(***************************************************************************)
(* C12: for a map of valid canvases compileCanvasMap returns a mapping     *)
(* with the keys of the map, each value the compileCanvas of its unit; the *)
(* value of a unit is the same in the map that holds this unit alone and   *)
(* in the map with its units in the opposite order.                        *)
(***************************************************************************)
reverse(seq) == [i \in 1..Len(seq) |-> seq[Len(seq) + 1 - i]]

unitCss(unit) == compileCanvas(unit, globalConfig, EmptyCache).out

C12_MapIsPerUnitCompilation ==
    (mapPc = "done" /\ \A i \in 1..Len(canvasMap) : isCanvas(canvasMap[i].val)) =>
        /\ entryKeys(mapResult) = entryKeys(canvasMap)
        /\ Len(mapResult) = Len(canvasMap)
        /\ \A i \in 1..Len(canvasMap) :
              LET k == canvasMap[i].key
              IN  /\ getProp(mapResult, k) = JsStr(unitCss(canvasMap[i].val))
                  /\ getProp(mapResult, k)
                        = getProp(compileCanvasMap(<<canvasMap[i]>>, globalConfig,
                                                   EmptyCache).result, k)
                  /\ getProp(mapResult, k)
                        = getProp(compileCanvasMap(reverse(canvasMap), globalConfig,
                                                   EmptyCache).result, k)

\* two canvases with different, non-empty outputs
C12_Witness ==
    /\ mapPc = "done" /\ Len(canvasMap) = 2
    /\ isCanvas(canvasMap[1].val) /\ isCanvas(canvasMap[2].val)
    /\ mapResult[1].val.s # <<>> /\ mapResult[2].val.s # <<>>
    /\ mapResult[1].val # mapResult[2].val

(***************************************************************************)
(* C13: a unit that is not a valid canvas (an object with a string         *)
(* config.output and an object style) has no entry in the mapping that     *)
(* compileCanvasMap returns, and the entries of the other units are what   *)
(* they are without it.                                                    *)
(***************************************************************************)
C13_InvalidUnitSkipped ==
    mapPc = "done" =>
        \A i \in 1..Len(canvasMap) :
            IF isCanvas(canvasMap[i].val)
            THEN getProp(mapResult, canvasMap[i].key) = JsStr(unitCss(canvasMap[i].val))
            ELSE canvasMap[i].key \notin entryKeys(mapResult)

(***************************************************************************)
(* C14: the hyphenation cache is transparent.  Whatever the cache holds,   *)
(* kebabCase returns its argument with every upper-case ASCII letter       *)
(* replaced by "-" and the lower-case letter and every other character     *)
(* kept (and so does every cache entry), and compiling the same tree with  *)
(* the same options again, after any other compilations, returns the same  *)
(* string as the first time.                                               *)
(***************************************************************************)
\* name with "-" and the lower-case letter for each upper-case letter, by
\* position: character i ends at position i + (upper-case letters up to i)
hyphenated(name) ==
    LET ups(i) == Cardinality({j \in 1..i : isUpper(name[j])})
        source(p) == CHOOSE i \in 1..Len(name) :
                        \/ i + ups(i) = p
                        \/ isUpper(name[i]) /\ i + ups(i) - 1 = p
    IN  [p \in 1..(Len(name) + ups(Len(name))) |->
            LET i == source(p)
            IN  IF ~isUpper(name[i]) THEN name[i]
                ELSE IF p = i + ups(i) THEN toLower(name[i])
                ELSE "-"]

C14_CacheIsTransparent ==
    /\ kcPc = "done" => kcResult = hyphenated(kcKey)
    /\ \A k \in DOMAIN kebabCache : kebabCache[k] = hyphenated(k)
    /\ pc \in {"done", "again"} => css = firstCss

\* the tree is compiled again, and kebabCase is called for a camel-case name,
\* both on a cache that already holds the name
C14_Witness ==
    /\ pc = "again" /\ css # <<>>
    /\ isSubstring(<<"b", "-", "c", ":">>, css)
    /\ kcPc = "done" /\ kcKey = <<"b", "C">> /\ kcResult = <<"b", "-", "c">>
    /\ DOMAIN kebabCache = CacheKeys

(***************************************************************************)
(* C15: batch builds have partial-failure semantics.  For every default    *)
(* export the build accepts, of the { config, canvas } shape or a bare     *)
(* canvas map, when the build has returned every unit of the collection    *)
(* has exactly one report line that names it: "invalid" for a unit that is *)
(* no canvas, "built" or "failed" for a canvas, whatever happened to the   *)
(* units before it; and the file of a built unit holds css compiled from a *)
(* canvas with that output path.  (Unit names are ordinary: a bare map     *)
(* with a unit named `canvas` is read as the other shape.)                 *)
(***************************************************************************)
\* the lines the tui was given about units
reportLines ==
    LET RECURSIVE from(_)
        from(i) == IF i > Len(uiLog) THEN <<>> ELSE uiLog[i].lines \o from(i + 1)
    IN  SelectSeq(from(1), LAMBDA l : l.label \in {"invalid", "failed", "built"})

linesNaming(name) == {k \in 1..Len(reportLines) : reportLines[k].unit = name}

buildAccepted ==
    /\ builds # <<>> /\ builds[1].pc = "returned"
    /\ entryExists /\ ~entryLoad.throws
    /\ normalizePlumetData(entryLoad.default).some

collection == entriesOf(normalizePlumetData(entryLoad.default).val.canvas)

buildCss(unit) ==
    compileCanvas(unit, normalizePlumetData(entryLoad.default).val.config, EmptyCache).out

unitOutput(unit) == prop(prop(unit, ConfigKey), OutputKey).s

failureReported ==
    \E k \in 1..Len(uiLog) :
        /\ uiLog[k].call = "watch"
        /\ \E l \in 1..Len(uiLog[k].lines) : uiLog[k].lines[l].label \in {"invalid", "failed"}

C16_WatchResilient ==
    failureReported =>
        /\ \A k \in 1..Len(uiLog) : uiLog[k].call = "watch"
        /\ exitCode = 0
        /\ EntryPath \in DOMAIN activeWatchers

(***************************************************************************)
(* C17: the watch loop never runs two builds that overlap, so no two       *)
(* builds are writing the same output file at the same time.               *)
(***************************************************************************)
writing(id) == builds[id].pc = "write"

C17_NoOverlappingWrites ==
    \A a, b \in DOMAIN builds :
        (a # b /\ writing(a) /\ writing(b)) => outputPath(builds[a]) # outputPath(builds[b])

(***************************************************************************)
(* C18: rebuilds are debounced.  The watcher callbacks between one timer   *)
(* callback and the next are one window: every timer callback closes a     *)
(* window with at least one watcher callback in it, starts exactly one     *)
(* build and gives the tui exactly one "modified" event, naming the file   *)
(* of the first callback of the window; while a window is open exactly one *)
(* timer is pending.                                                       *)
(***************************************************************************)
\* the watcher and timer callbacks, in order
callbacks == SelectSeq(evLog, LAMBDA e : e.kind \in {"change", "fire"})

fires == {k \in 1..Len(callbacks) : callbacks[k].kind = "fire"}

\* the callbacks of the window that ends before position k
windowBefore(k) ==
    {j \in 1..(k - 1) : \A f \in fires : f < k => f < j}

firstOf(window) == CHOOSE j \in window : \A i \in window : j <= i

modifiedEvents ==
    SelectSeq(uiLog, LAMBDA c : c.call = "watch" /\ Len(c.lines) > 0
                                /\ c.lines[1].label = "modified")

C18_Debounced ==
    /\ Len(modifiedEvents) = Cardinality(fires)
    /\ Len(builds) = 1 + Cardinality(fires)
    /\ \A k \in fires :
          /\ windowBefore(k) # {}
          /\ LET n == Cardinality({f \in fires : f <= k})
             IN  /\ Len(modifiedEvents[n].lines) = 1
                 /\ modifiedEvents[n].lines[1].unit = callbacks[firstOf(windowBefore(k))].file
    /\ LET open == windowBefore(Len(callbacks) + 1)
       IN  /\ queued <=> open # {}
           /\ Len(timers) = (IF open # {} THEN 1 ELSE 0)
           /\ open # {} => Head(timers) = callbacks[firstOf(open)].file

\* a window of two callbacks for different files was closed by one timer
\* callback, which reported the first file and started the second build
C18_Witness ==
    /\ callbacks = <<Changed(DepPath), Changed(EntryPath), Fired>>
    /\ Len(builds) = 2
    /\ Len(modifiedEvents) = 1
    /\ modifiedEvents[1].lines[1].unit = DepPath
    /\ timers = <<>> /\ ~queued

(***************************************************************************)
(* C19: output order is depth-first pre-order in source key order.  The    *)
(* headers of the output, in order, are those of the emitted nodes (the    *)
(* reached rule nodes with a present declaration, under their selector,    *)
(* and the reached at-rules with a surviving declaration, under their      *)
(* name) in pre-order: a node before its children, the children in the     *)
(* order of the node's keys, a child's whole subtree before the next       *)
(* sibling.                                                                *)
(***************************************************************************)
\* the paths below a node, seen from its parent: each behind the node's index
below(i, paths) == [k \in 1..Len(paths) |-> <<i>> \o paths[k]]

\* the paths of the nodes below entries i.. of es, in pre-order
RECURSIVE preorderFrom(_, _)
preorderFrom(es, i) ==
    IF i > Len(es) THEN <<>>
    ELSE IF ~isNodeEntry(es[i]) THEN preorderFrom(es, i + 1)
    ELSE <<<<i>>>> \o below(i, preorderFrom(es[i].val.o, 1)) \o preorderFrom(es, i + 1)

emitted(es, p, omit) ==
    /\ reached(es, p, omit)
    /\ IF isAtPath(es, p) THEN hasLive(nodeAt(es, p), selectorAt(es, p), omit)
       ELSE presentDecls(nodeAt(es, p)) # <<>>

emittedInOrder(es, omit) == SelectSeq(preorderFrom(es, 1), LAMBDA p : emitted(es, p, omit))

headerOf(es, p) == IF isAtPath(es, p) THEN keyAt(es, p) ELSE selectorAt(es, p)

headersOf(es, order) == [k \in 1..Len(order) |-> headerOf(es, order[k])]

C19_PreOrderInKeyOrder ==
    (pc = "done" /\ style.t = "obj") =>
        headers(css) = headersOf(style.o, emittedInOrder(style.o, givenOmit(options)))

\* a rule with a nested rule, followed by a sibling: parent, child, sibling
C19_Witness ==
    /\ pc = "done" /\ style.t = "obj"
    /\ headers(css) = <<<<"a">>, <<"a", " ", "a">>, <<":", "h">>>>
    /\ \E p \in nodePaths(style.o) : Len(p) = 2 /\ selectorAt(style.o, p) = <<"a", " ", "a">>

(***************************************************************************)
(* C20 as stated: in the pretty format a nested ordinary rule is indented  *)
(* two spaces more than the rule of the rule node that contains it.        *)
(***************************************************************************)
\* the number of spaces that start the line of the "{" at position i
lineIndent(text, i) ==
    LET breaks == {j \in 1..(i - 1) : text[j] = "\n"}
        start == IF breaks = {} THEN 1
                 ELSE 1 + (CHOOSE m \in breaks : \A x \in breaks : x <= m)
    IN  CHOOSE n \in 0..(i - start) :
            /\ \A j \in 0..(n - 1) : text[start + j] = " "
            /\ text[start + n] # " "

\* the indentation of each header of the output, in order
headerIndents(text) ==
    LET at == SelectSeq(indices(text), LAMBDA i : text[i] = "{")
    IN  [k \in 1..Len(at) |-> lineIndent(text, at[k])]

\* positions k, m of the emitted nodes: the m-th is an ordinary rule directly
\* inside the rule node that is the k-th
nestedRulePairs(es, order) ==
    {km \in (1..Len(order)) \X (1..Len(order)) :
        /\ Len(order[km[2]]) = Len(order[km[1]]) + 1
        /\ SubSeq(order[km[2]], 1, Len(order[km[1]])) = order[km[1]]
        /\ isRulePath(es, order[km[1]])
        /\ isRulePath(es, order[km[2]])}

\* every nested ordinary rule is indented `more` spaces more than its parent
nestedIndentedBy(more, indents, pairs) ==
    \A km \in pairs : indents[km[2]] = indents[km[1]] + more

C20_NestedRuleIndentedDeeper ==
    (pc = "done" /\ style.t = "obj" /\ givenFormat(options) = "pretty") =>
        nestedIndentedBy(2, headerIndents(css),
                         nestedRulePairs(style.o,
                                         emittedInOrder(style.o, givenOmit(options))))

(***************************************************************************)
(* C20 amended: a nested ordinary rule is compiled at the depth of the     *)
(* rule node that contains it, so in the pretty format it has the same     *)
(* indentation as that node's rule; only an enclosing at-rule adds a       *)
(* level: every rule and at-rule header is indented two spaces for each    *)
(* at-rule above it.                                                       *)
(***************************************************************************)
atRulesAbove(es, p) ==
    Cardinality({n \in 1..(Len(p) - 1) : isAtPath(es, SubSeq(p, 1, n))})

indentedByAtRules(indents, es, order) ==
    /\ indents = [k \in 1..Len(order) |-> 2 * atRulesAbove(es, order[k])]
    /\ nestedIndentedBy(0, indents, nestedRulePairs(es, order))

C20_NestedRuleKeepsDepth ==
    (pc = "done" /\ style.t = "obj" /\ givenFormat(options) = "pretty") =>
        indentedByAtRules(headerIndents(css), style.o,
                          emittedInOrder(style.o, givenOmit(options)))

\* pretty output of an at-rule holding a rule that holds a rule: both rules
\* are indented two spaces
C20_Witness ==
    /\ pc = "done" /\ style.t = "obj" /\ givenFormat(options) = "pretty"
    /\ headers(css) = <<<<"@", "m">>, <<"a">>, <<"a", " ", "a">>>>
    /\ headerIndents(css) = <<0, 2, 2>>
    /\ nestedRulePairs(style.o, emittedInOrder(style.o, givenOmit(options))) = {<<2, 3>>}

(***************************************************************************)
(* C21: an at-rule body is the at-rule node's own declarations, bare,      *)
(* followed by the output of its children in key order: the wrapped body   *)
(* of a child at-rule, the compiled rules of a child rule.  In the pretty  *)
(* format the wrapper's two lines are at the current depth and the body is *)
(* one level deeper: every line of the body is the line it would be at the *)
(* wrapper's depth behind two more spaces.  The output of a tree is the    *)
(* text assembled this way, every rule and every block of declarations     *)
(* rendered at depth 0 and moved right by the wrappers around it.          *)
(***************************************************************************)
\* text with two spaces put before each of its lines
indentLines(text) ==
    LET starts == {i \in 1..Len(text) : i = 1 \/ text[i - 1] = "\n"}
        moved(i) == i + 2 * Cardinality({st \in starts : st <= i})
    IN  [j \in 1..(Len(text) + 2 * Cardinality(starts)) |->
            IF \E i \in 1..Len(text) : moved(i) = j
            THEN text[CHOOSE i \in 1..Len(text) : moved(i) = j]
            ELSE " "]

oneLevelDeeper(body, format) == IF format = "pretty" THEN indentLines(body) ELSE body

\* the wrapper around a body, at depth 0
wrapped(name, body, format) ==
    IF body = <<>> THEN <<>>
    ELSE IF format = "pretty"
         THEN name \o <<" ", "{", "\n">> \o oneLevelDeeper(body, format) \o <<"}", "\n">>
    ELSE name \o <<"{">> \o body \o <<"}">>
              \o (IF format = "default" THEN <<"\n">> ELSE <<>>)

ownDeclarations(es) == collectDeclarations(getProp(es, <<"$">>), EmptyCache).entries

\* the rule of a node at depth 0, and its declarations bare at depth 0
ownRuleText(sel, es, format) ==
    IF ownDeclarations(es) = <<>> THEN <<>>
    ELSE writeRule(<<>>, sel, ownDeclarations(es), 0, format)

bareText(es, format) == writeDeclarations(<<>>, ownDeclarations(es), 0, format)

\* the output of the children i.. of a node with selector scope sel
RECURSIVE childrenText(_, _, _, _, _)
childrenText(sel, es, i, format, omit) ==
    IF i > Len(es) THEN <<>>
    ELSE (IF ~isNodeEntry(es[i]) THEN <<>>
          ELSE IF isAtKey(es[i].key)
               THEN wrapped(es[i].key,
                            bareText(es[i].val.o, format)
                            \o childrenText(sel, es[i].val.o, 1, format, omit),
                            format)
          ELSE IF isOmitted(omit, resolveSelector(sel, es[i].key)) THEN <<>>
          ELSE ownRuleText(resolveSelector(sel, es[i].key), es[i].val.o, format)
               \o childrenText(resolveSelector(sel, es[i].key), es[i].val.o, 1,
                               format, omit))
         \o childrenText(sel, es, i + 1, format, omit)

C21_AtRuleBodyAssembly ==
    (pc = "done" /\ style.t = "obj") =>
        css = childrenText(<<>>, style.o, 1, givenFormat(options), givenOmit(options))

\* pretty output of an at-rule with own declarations around an at-rule
\* around a rule: declarations first, wrappers at 0 and 2, the rule at 4
C21_Witness ==
    /\ pc = "done" /\ style.t = "obj" /\ givenFormat(options) = "pretty"
    /\ headers(css) = <<KeyAt, KeyAtN, KeyA>>
    /\ headerIndents(css) = <<0, 2, 4>>
    /\ isSubstring(<<"@", "m", " ", "{", "\n", " ", " ", "p", ":", " ", "v", ";", "\n",
                     " ", " ", "@", "n", " ", "{", "\n">>, css)

(***************************************************************************)
(* C26: an at-rule key is never tested against the omit patterns.  A       *)
(* pattern that equals or glob-matches an at-rule's name suppresses        *)
(* neither the at-rule nor its contents: every at-rule that is reached     *)
(* through rules no pattern excludes and has a surviving declaration is in *)
(* the output under its name, and the output is the output for the omit    *)
(* list without the patterns that match no resolved selector of a rule     *)
(* node of the tree.                                                       *)
(***************************************************************************)
ruleSelectors(es) ==
    {selectorAt(es, p) : p \in {q \in nodePaths(es) : isRulePath(es, q)}}

atRuleNames(es) == {keyAt(es, p) : p \in {q \in nodePaths(es) : isAtPath(es, q)}}

matchesSome(pattern, names) == \E s \in names : isOmitted(Some(<<pattern>>), s)

\* the omit list without the patterns that match no rule selector of the tree
onRuleSelectors(es, omit) ==
    IF omit.some
    THEN Some(SelectSeq(omit.val, LAMBDA pattern : matchesSome(pattern, ruleSelectors(es))))
    ELSE omit

atRuleKept(es, omit, text) ==
    \A p \in nodePaths(es) :
        (/\ isAtPath(es, p)
         /\ reached(es, p, omit)
         /\ hasLive(nodeAt(es, p), selectorAt(es, p), omit))
        => keyAt(es, p) \in headerSet(text)

C26_AtRuleKeysNotOmitted ==
    (pc = "done" /\ style.t = "obj") =>
        /\ atRuleKept(style.o, givenOmit(options), css)
        /\ css = compileStyle(style,
                              ObjectOptions(onRuleSelectors(style.o, givenOmit(options)),
                                            Some(givenFormat(options))),
                              EmptyCache).out

\* an omit pattern matches the name of an at-rule at the root, of one inside
\* a rule and of one inside an at-rule, and all three are in the output
C26_Witness ==
    /\ pc = "done" /\ style.t = "obj" /\ givenOmit(options).some
    /\ \A p \in nodePaths(style.o) :
          isAtPath(style.o, p) => isOmitted(givenOmit(options), keyAt(style.o, p))
    /\ \E p \in nodePaths(style.o) :
          /\ Len(p) = 3
          /\ isAtPath(style.o, p)
          /\ isAtPath(style.o, SubSeq(p, 1, 2))
          /\ isRulePath(style.o, SubSeq(p, 1, 1))
          /\ count(css, "@") = 2
    /\ \E l \in AtRuleOmits : options = ArrayOptions(l)

(***************************************************************************)
(* C24: a build that is not in watch mode and whose entry loads to a       *)
(* canvas map with N entries gives the tui one summary; its files count is *)
(* the number of built lines, its errors count the number of invalid and   *)
(* failed lines, files + errors = N, and the exit code is 1 exactly when   *)
(* errors is not 0.                                                        *)
(***************************************************************************)
summaries == SelectSeq(uiLog, LAMBDA c : c.call = "summary")

linesLabelled(labels) == {k \in 1..Len(reportLines) : reportLines[k].label \in labels}

C24_SummaryCountsEveryUnit ==
    (buildAccepted /\ ~builds[1].watchMode) =>
        /\ Len(summaries) = 1
        /\ summaries[1].files = Cardinality(linesLabelled({"built"}))
        /\ summaries[1].errors = Cardinality(linesLabelled({"invalid", "failed"}))
        /\ summaries[1].files + summaries[1].errors = Len(collection)
        /\ exitCode = 1 <=> summaries[1].errors > 0
        /\ exitCode \in {0, 1}

\* a map of two units, one built and one invalid: 1 + 1 = 2, exit code 1
C24_Witness ==
    /\ buildAccepted /\ ~builds[1].watchMode
    /\ Len(collection) = 2
    /\ summaries[1].files = 1 /\ summaries[1].errors = 1
    /\ \E k \in 1..Len(reportLines) : reportLines[k].label = "invalid"
    /\ exitCode = 1

(***************************************************************************)
(* C22: after every resetWatchers(files) in watchLoop every file with an   *)
(* active watcher is in files, the watcher of every file not in files has  *)
(* been closed and removed, the watchers of the files that stay are the    *)
(* same watchers, a file of the set that had no watcher has one exactly    *)
(* when its watch call succeeds, and every watcher ever created is either  *)
(* closed or the one active watcher of one file.                           *)
(***************************************************************************)
\* this step is the continuation of `await build(true)` of build id
resetsAfter(id) == builds[id].pc # "returned" /\ builds'[id].pc = "returned"

watchersOf(watchers) == {watchers[f] : f \in DOMAIN watchers}

oneWatcherEach(watchers, closed, created) ==
    /\ watchersOf(watchers) \cup closed = 1..created
    /\ watchersOf(watchers) \cap closed = {}
    /\ \A f, g \in DOMAIN watchers : watchers[f] = watchers[g] => f = g

afterReset(files) ==
    /\ DOMAIN activeWatchers' \subseteq files
    /\ \A f \in DOMAIN activeWatchers \ files : activeWatchers[f] \in closedWatchers'
    /\ \A f \in DOMAIN activeWatchers \cap files :
          f \in DOMAIN activeWatchers' /\ activeWatchers'[f] = activeWatchers[f]
    /\ \A f \in files \ DOMAIN activeWatchers :
          f \in DOMAIN activeWatchers' <=> canWatch(f, entryExists, depExists)
    /\ oneWatcherEach(activeWatchers', closedWatchers', watcherCount')

C22_ResetWatchers ==
    [][\A id \in DOMAIN builds : resetsAfter(id) => afterReset(builds'[id].deps.val)]_vars

\* the watcher of the imported file was closed when the import went away; the
\* import is back in the set of the last reset but the file is gone, so its
\* watch call failed, and the entry still has its first watcher
C22_Witness ==
    /\ \A id \in DOMAIN builds : builds[id].pc = "returned"
    /\ Len(builds) = 3
    /\ builds[3].deps.val = {EntryPath, DepPath}
    /\ ~depExists
    /\ closedWatchers = {2}
    /\ DOMAIN activeWatchers = {EntryPath} /\ activeWatchers[EntryPath] = 1

(***************************************************************************)
(* C25: whenever no build is running and no rebuild timer is pending, the  *)
(* watched files are the dependency set returned by the most recently      *)
(* started build, without the files whose watch call failed; in            *)
(* particular every watched file is in that set, and a build that started  *)
(* earlier and finished later has not put its older set in its place.      *)
(* Stated for the states in which the set of the most recently started     *)
(* build is still the entry's imports, so that a watched file outside it   *)
(* comes from an older set.                                                *)
(***************************************************************************)
noBuildRunning == \A id \in DOMAIN builds : builds[id].pc = "returned"

mostRecentlyStarted == builds[Len(builds)]

\* the set the most recently started build returned is still what the entry
\* imports now
latestDepsCurrent ==
    mostRecentlyStarted.deps.val = collectedDeps(entryExists, entryImports, depExists)

C25_WatchedIsLatestDeps ==
    (noBuildRunning /\ timers = <<>> /\ latestDepsCurrent) =>
        DOMAIN activeWatchers \subseteq mostRecentlyStarted.deps.val

(***************************************************************************)
(* C23: no change is lost in watch mode.  Every callback of an active      *)
(* watcher is followed by a timer callback, which starts a build, whether  *)
(* the callback comes while a timer is pending, while a build is running   *)
(* or while the loop is idle: as long as the last thing that happened is a *)
(* watcher callback a timer is pending, and (timers firing) a timer        *)
(* callback follows.                                                       *)
(***************************************************************************)
\* some watcher callback has no timer callback after it
changePending == evLog # <<>> /\ evLog[Len(evLog)].kind = "change"

C23_NoChangeLost ==
    /\ [](changePending => timers # <<>>)
    /\ changePending ~> ~changePending

\* a watcher callback while the rebuild for an earlier one is still running,
\* and the timer callback that starts a build for it
C23_Witness ==
    /\ Len(evLog) = 4
    /\ evLog[1].kind = "change" /\ evLog[2].kind = "fire"
    /\ evLog[3].kind = "change" /\ evLog[4].kind = "fire"
    /\ Len(builds) = 3 /\ builds[2].pc = "import" /\ builds[3].pc = "deps"

(***************************************************************************)
(* C27: collectDependencies terminates for every finite import graph,      *)
(* cycles and self-imports included: it returns, readFile is called at     *)
(* most once for each path, the returned set holds the entry path (also    *)
(* when the entry cannot be read), and it holds only files reached from    *)
(* the entry through import specifiers that start with "." (here: exactly  *)
(* those files).                                                           *)
(***************************************************************************)
\* file f has an import statement with a "."-prefixed specifier for file g
importsRelatively(files, f, g) ==
    /\ files[f].exists /\ files[g].exists
    /\ \E i \in 1..Len(files[f].imports) :
          LET spec == files[f].imports[i]
          IN  /\ spec[1] = "."
              /\ \/ g = SubSeq(spec, 3, Len(spec))
                 \/ \E k \in 1..Len(CANDIDATE_EXTS) :
                        g = SubSeq(spec, 3, Len(spec)) \o CANDIDATE_EXTS[k]

\* the files reached from the set `from` in up to n steps
RECURSIVE reachedWithin(_, _, _)
reachedWithin(files, from, n) ==
    IF n = 0 THEN from
    ELSE reachedWithin(files,
                       from \cup {g \in DOMAIN files :
                                     \E f \in from : importsRelatively(files, f, g)},
                       n - 1)

reachable(files) == reachedWithin(files, {EntryFile}, Cardinality(DOMAIN files))

readAtMostOnce == \A i, j \in 1..Len(cdReads) : cdReads[i] = cdReads[j] => i = j

C27_CollectTerminates ==
    /\ <>(cdPc = "returned")
    /\ [](readAtMostOnce)
    /\ [](cdPc = "returned" => EntryFile \in cdSeen /\ cdSeen = reachable(cdFiles))

\* returned from a graph with a cycle through the entry, a self-import and
\* a bare specifier: the entry and a.ts were read once each, b.js is not in
\* the set
C27_Witness ==
    /\ cdPc = "returned"
    /\ cdFiles[EntryFile].imports = <<<<".", "/", "a">>>>
    /\ cdFiles[ModuleA].imports = <<<<".", "/", "e", ".", "t", "s">>, <<".", "/", "a">>>>
    /\ cdFiles[ModuleB].exists
    /\ cdSeen = {EntryFile, ModuleA}
    /\ cdReads = <<EntryFile, ModuleA>>

====
